---- MODULE Spec2Model ----
(***************************************************************************)
(* The I2C sensor device drivers of homeassistant/components: HTS221       *)
(* (temperature and humidity), VEML6075 (UV) and LPS22HB (pressure).       *)
(* One device object is shared by the threads that call run(),             *)
(* register_entity() / register_sensor_callback() and, on VEML6075,        *)
(* set_uv_coefficients().  A thread's position in the method it executes   *)
(* is pc[t]; the statements of a method are the steps of the model.        *)
(*                                                                         *)
(* Floating point values are IEEE 754 doubles, computed with the           *)
(* rounding of every operation; the VEML6075 coefficients are kept as      *)
(* scaled integers (visible and IR in 1/100, responsivity in 1/1000000).   *)
(***************************************************************************)
EXTENDS Integers, Sequences, FiniteSets, TLC

VARIABLES
    variant,            \* which driver class the device object is
    slowdown,           \* self._slowdown
    slowdown_counter,   \* self._slowdown_counter
    device_lock,        \* self._device_lock: the thread holding it, or NoThread
    entities,           \* self._entities / self._sensor_callbacks, in insertion order
    coef,               \* VEML6075: self.coef_*
    calib,              \* HTS221: self._Tref_deg, _Tref_adc, _Tscale, _Href_rH, _Href_adc, _Hscale
    pc,                 \* pc[t]: where thread t is
    idx,                \* idx[t]: position of the for loop of run() in the dict
    buf,                \* buf[t]: register values the running accessor has read so far
    value,              \* value[t]: the local variable value of run(), <<>> while unbound
    pending,            \* pending[t]: the exception unwinding through the with block
    arg,                \* arg[t]: the argument of the call in progress
    runCalls,           \* history: number of run() calls that got the lock
    dispatchCalls,      \* history: the numbers of the run() calls that started a pass
    snap,               \* history: snap[t], the dict as it was when t got the lock
    pushed,             \* history: pushed[t], the callbacks t invoked in this call, in order
    lastReg,            \* history: lastReg[k], the last entity stored under key k
    overwritten,        \* history: overwritten[t], what t's last registration replaced (until t's next call)
    bus_failed,         \* history: a bus read has failed in a run() that has returned since
    init_pc,            \* __init__: the number of its next statement; 0 once it has raised, past the last once it has returned
    device_id,          \* __init__: the local device_id, <<>> while unbound
    cal_regs,           \* __init__: the calibration registers read so far (register -> value)
    init_raised,        \* the exception __init__ has raised, or NoException
    registered,         \* self._bus.register_device(self) has been called
    bus_log,            \* history: the bus transactions of __init__, in order
    calc                \* the pure function under evaluation: [fn, in, out], <<>> when none

devVars == <<variant, slowdown, slowdown_counter, device_lock, entities, coef, calib>>
thrVars == <<pc, idx, buf, value, pending, arg>>
histVars == <<runCalls, dispatchCalls, snap, pushed, lastReg, overwritten, bus_failed>>
initVars == <<init_pc, device_id, cal_regs, init_raised, registered, bus_log>>
vars == <<devVars, thrVars, histVars, initVars, calc>>

-----------------------------------------------------------------------------
(* Bounds *)

\* largest decimation period a device is constructed with
MaxSlowdown == 2
\* number of run() calls followed from construction
MaxCalls == 5

-----------------------------------------------------------------------------
(* The environment: threads, entities, the bus *)

\* run() is "called from bus manager thread", registration "from async thread pool"
Threads == {"bus_manager", "thread_pool"}
NoThread == "none"

\* the bus manager thread only polls; the pool's thread sets entities up and,
\* sharing the device object, may call any of its methods
SetupThreads == {"thread_pool"}

Variants == {"HTS221", "VEML6075", "LPS22HB"}

\* decimation periods passed to the constructor (CONF_SCAN_SLOWDOWN is any int)
Slowdowns == {-1, 0} \cup (1..MaxSlowdown)

\* The two sensor kinds of a variant: the device_class values run() tests for,
\* and for LPS22HB the two value functions a record can be bound to.
KindA ==
    CASE variant = "HTS221" -> "temperature"
      [] variant = "VEML6075" -> "uv"
      [] variant = "LPS22HB" -> "get_pressure"

KindB ==
    CASE variant = "HTS221" -> "humidity"
      [] variant = "VEML6075" -> "uv_intensity"
      [] variant = "LPS22HB" -> "get_temperature"

\* What callers register: id is the entity object (for LPS22HB the callback),
\* name its display name, kind its device_class (for LPS22HB its sensor_function),
\* push whether the object has a push_update attribute.
Entities ==
    { [id |-> "e1", name |-> "n1", kind |-> KindA, push |-> TRUE],
      [id |-> "e2", name |-> "n2", kind |-> KindA, push |-> TRUE],
      [id |-> "e3", name |-> "n1", kind |-> KindB, push |-> TRUE],
      [id |-> "e4", name |-> "n2", kind |-> KindB, push |-> FALSE] }

Keys == {"n1", "n2", "temperature", "humidity", "uv", "uv_intensity"}

\* exceptions in the model: "IOError" (a bus read), "TypeError", "CallbackError"
NoException == "none"

-----------------------------------------------------------------------------
(* Integers *)

Abs(n) == IF n < 0 THEN -n ELSE n
Sign(n) == IF n < 0 THEN -1 ELSE 1

-----------------------------------------------------------------------------
(* Natural numbers of any size: sequences of limbs, least significant first, *)
(* without leading zero limbs (the mantissas of doubles need 53 bits)        *)

\* F of the value of v, and F of the values of v and w: the arguments are
\* evaluated once, before F is applied
With(v, F(_)) == CHOOSE r \in {F(x) : x \in {v}} : TRUE
With2(v, w, F(_, _)) == CHOOSE r \in {F(x, y) : x \in {v}, y \in {w}} : TRUE

\* a limb holds LimbBits bits
LimbBits == 11
Limb == 2048

Pow2(n) == CASE n = 0 -> 1 [] n = 1 -> 2 [] n = 2 -> 4 [] n = 3 -> 8 [] n = 4 -> 16
             [] n = 5 -> 32 [] n = 6 -> 64 [] n = 7 -> 128 [] n = 8 -> 256
             [] n = 9 -> 512 [] n = 10 -> 1024 [] n = 11 -> 2048

Max(S) == CHOOSE x \in S : \A y \in S : y <= x

BigNorm(a) == SubSeq(a, 1, Max({0} \cup {i \in 1..Len(a) : a[i] # 0}))

\* n >= 0 below 2^31
BigFromInt(n) == BigNorm(<<n % Limb, (n \div Limb) % Limb, n \div (Limb * Limb)>>)

BigLimb(a, i) == IF i <= Len(a) THEN a[i] ELSE 0

\* the limbs from the i-th on of a + b + carry * Limb^(i-1)
RECURSIVE BigAddFrom(_, _, _, _)
BigAddFrom(a, b, i, carry) ==
    IF i > Len(a) /\ i > Len(b)
    THEN (IF carry = 0 THEN <<>> ELSE <<carry>>)
    ELSE With2(BigLimb(a, i) + BigLimb(b, i) + carry, i + 1,
               LAMBDA d, j : <<d % Limb>> \o BigAddFrom(a, b, j, d \div Limb))

BigAdd(a, b) == BigAddFrom(a, b, 1, 0)

\* a - b for a >= b
RECURSIVE BigSubFrom(_, _, _, _)
BigSubFrom(a, b, i, borrow) ==
    IF i > Len(a)
    THEN <<>>
    ELSE With2(BigLimb(a, i) - BigLimb(b, i) - borrow, i + 1,
               LAMBDA d, j : IF d < 0
                             THEN <<d + Limb>> \o BigSubFrom(a, b, j, 1)
                             ELSE <<d>> \o BigSubFrom(a, b, j, 0))

BigSub(a, b) == With(BigSubFrom(a, b, 1, 0), LAMBDA d : BigNorm(d))

\* -1, 0, 1 as a < b, a = b, a > b
BigCmp(a, b) ==
    IF Len(a) < Len(b) THEN -1
    ELSE IF Len(a) > Len(b) THEN 1
    ELSE With(Max({0} \cup {i \in 1..Len(a) : a[i] # b[i]}),
              LAMBDA i : IF i = 0 THEN 0 ELSE IF a[i] < b[i] THEN -1 ELSE 1)

\* a * k for 0 <= k < 2^20
RECURSIVE BigMulSmallFrom(_, _, _, _)
BigMulSmallFrom(a, k, i, carry) ==
    IF i > Len(a)
    THEN BigFromInt(carry)
    ELSE With2(a[i] * k + carry, i + 1,
               LAMBDA d, j : <<d % Limb>> \o BigMulSmallFrom(a, k, j, d \div Limb))

BigMulSmall(a, k) == With(BigMulSmallFrom(a, k, 1, 0), LAMBDA d : BigNorm(d))

\* a * Limb^n
BigShiftLimbs(a, n) == IF a = <<>> THEN a ELSE [i \in 1..n |-> 0] \o a

\* a * b
RECURSIVE BigMulFrom(_, _, _)
BigMulFrom(a, b, i) ==
    IF i > Len(b)
    THEN <<>>
    ELSE With2(BigMulSmall(a, b[i]), BigMulFrom(a, b, i + 1),
               LAMBDA x, y : With(BigShiftLimbs(x, i - 1), LAMBDA z : BigAdd(z, y)))

BigMul(a, b) == BigMulFrom(a, b, 1)

\* a * 2^n
BigShl(a, n) ==
    With(BigMulSmall(a, Pow2(n % LimbBits)), LAMBDA x : BigShiftLimbs(x, n \div LimbBits))

\* [q, r] with a = q * k + r, 0 <= r < k, for 0 < k < 2^20: the limbs of a
\* from the i-th down, rem the remainder and q the quotient of those above
RECURSIVE BigDivModSmallFrom(_, _, _, _, _)
BigDivModSmallFrom(a, k, i, rem, q) ==
    IF i = 0
    THEN [q |-> BigNorm(q), r |-> rem]
    ELSE With2(rem * Limb + a[i], i - 1,
               LAMBDA d, j : With(<<d \div k>> \o q,
                                  LAMBDA p : BigDivModSmallFrom(a, k, j, d % k, p)))

BigDivModSmall(a, k) == BigDivModSmallFrom(a, k, Len(a), 0, <<>>)

\* a \div 2^n
BigShr(a, n) ==
    IF n \div LimbBits >= Len(a)
    THEN <<>>
    ELSE With(SubSeq(a, (n \div LimbBits) + 1, Len(a)),
              LAMBDA x : BigDivModSmall(x, Pow2(n % LimbBits)).q)

\* the number of bits of 0 <= n < 2^LimbBits
IntBitLen(n) == Max({0} \cup {i \in 1..LimbBits : n >= Pow2(i - 1)})

BigBitLen(a) == IF a = <<>> THEN 0 ELSE (Len(a) - 1) * LimbBits + IntBitLen(a[Len(a)])

BigOdd(a) == a # <<>> /\ a[1] % 2 = 1

\* the number of trailing zero bits of a # 0
BigTrailingZeros(a) ==
    With(CHOOSE i \in 1..Len(a) : a[i] # 0 /\ \A j \in 1..(i - 1) : a[j] = 0,
         LAMBDA i : (i - 1) * LimbBits
                      + Max({z \in 0..(LimbBits - 1) : a[i] % Pow2(z) = 0}))

-----------------------------------------------------------------------------
(* Python floats: IEEE 754 binary64, round to nearest, ties to even.        *)
(* A float is [s, m, e] for s * m * 2^e with m odd and below 2^53, or zero   *)
(* (m = <<>>, e = 0, s = 1: 0.0 and -0.0 compare equal).  The values of the  *)
(* drivers stay far inside the exponent range.                               *)

\* the bits of a double's significand
MantissaBits == 53

FZero == [s |-> 1, m |-> <<>>, e |-> 0]

\* s * m * 2^e with m below 2^53, brought to an odd m
FNormal(s, m, e) ==
    With(BigTrailingZeros(m), LAMBDA z : [s |-> s, m |-> BigShr(m, z), e |-> e + z])

\* a, of n bits more than a double holds, without them: a \div 2^n rounded up
\* when the n bits are more than half, or half and a \div 2^n is odd
BigRoundShr(a, n) ==
    With(BigShr(a, n),
         LAMBDA q : With2(BigSub(a, BigShl(q, n)), BigShl(<<1>>, n - 1),
                          LAMBDA r, half :
                              With(BigCmp(r, half),
                                   LAMBDA c : IF c > 0 \/ (c = 0 /\ BigOdd(q))
                                              THEN BigAdd(q, <<1>>)
                                              ELSE q)))

\* s * a * 2^e for values a of any size and e, rounded to a double
FRoundValue(s, a, e) ==
    IF a = <<>> THEN FZero
    ELSE With(BigBitLen(a) - MantissaBits,
              LAMBDA n : IF n <= 0
                         THEN FNormal(s, a, e)
                         ELSE With(BigRoundShr(a, n), LAMBDA m : FNormal(s, m, e + n)))

FRound(s, a, e) == With2(a, e, LAMBDA av, ev : FRoundValue(s, av, ev))

\* float(n) for an int n of less than 31 bits
FFromInt(n) == With(n, LAMBDA v : FRound(Sign(v), BigFromInt(Abs(v)), 0))

FNeg(x) == With(x, LAMBDA v : IF v.m = <<>> THEN v ELSE [v EXCEPT !.s = -v.s])

\* x + y for values x and y, without rounding: [s, m, e] with m of any size
FExactAddValues(x, y) ==
    IF x.m = <<>> THEN y
    ELSE IF y.m = <<>> THEN x
    ELSE With(IF x.e < y.e THEN x.e ELSE y.e,
              LAMBDA e :
                  With2(BigShl(x.m, x.e - e), BigShl(y.m, y.e - e),
                        LAMBDA a, b :
                            IF x.s = y.s THEN [s |-> x.s, m |-> BigAdd(a, b), e |-> e]
                            ELSE With(BigCmp(a, b),
                                      LAMBDA c :
                                          IF c = 0 THEN FZero
                                          ELSE IF c > 0 THEN [s |-> x.s, m |-> BigSub(a, b), e |-> e]
                                          ELSE [s |-> y.s, m |-> BigSub(b, a), e |-> e])))

FExactAdd(x, y) == With2(x, y, LAMBDA a, b : FExactAddValues(a, b))

\* x + y, x - y, x * y
FAdd(x, y) == With(FExactAdd(x, y), LAMBDA z : FRound(z.s, z.m, z.e))
FSub(x, y) == FAdd(x, FNeg(y))
FMul(x, y) ==
    With2(x, y, LAMBDA a, b : FRound(a.s * b.s, BigMul(a.m, b.m), a.e + b.e))

\* x / k for values x # 0 and k
FDivIntValues(x, k) ==
    With(MantissaBits + 20 - BigBitLen(x.m) + LimbBits * Len(BigFromInt(Abs(k))),
         LAMBDA shift :
             With(BigShl(x.m, shift),
                  LAMBDA a :
                      With(BigDivModSmall(a, Abs(k)),
                           LAMBDA d :
                               With(BigShl(d.q, 1),
                                    LAMBDA q :
                                        FRound(x.s * Sign(k),
                                               BigAdd(q, IF d.r = 0 THEN <<>> ELSE <<1>>),
                                               x.e - shift - 1)))))

\* x / k for a float k that is an integer, 0 < |k| < 2^20 (8.0, 2.0, the
\* difference of two calibration codes): the quotient to 20 bits or more
\* beyond those a double holds, and a last bit set iff the division left a
\* remainder
FDivInt(x, k) ==
    With2(x, k, LAMBDA a, b : IF a.m = <<>> THEN FZero ELSE FDivIntValues(a, b))

\* x < y
FLess(x, y) == With(FExactAdd(x, FNeg(y)), LAMBDA z : z.m # <<>> /\ z.s = -1)

\* Python's min(a, b) and max(a, b): the first argument unless the second is smaller/larger
FMin(a, b) == With2(a, b, LAMBDA x, y : IF FLess(y, x) THEN y ELSE x)
FMax(a, b) == With2(a, b, LAMBDA x, y : IF FLess(x, y) THEN y ELSE x)

-----------------------------------------------------------------------------
(* HTS221: calibration and value computation *)

\* Mutant: the code left unsigned
HTS221_adc_Unsigned(msb, lsb) == msb * 256 + lsb

\* (msb << 8) + lsb, then "x -= (1 << 16) if (x & 0x8000) else 0"
HTS221_adc(msb, lsb) ==
    LET x == msb * 256 + lsb
    IN  IF (x \div 32768) % 2 = 1 THEN x - 65536 ELSE x

\* The calibration registers of the chips a device is constructed on: one
\* with two distinct calibration points per quantity, one whose two
\* temperature points have the same code.
HTS221_CalibrationRegisters ==
    { [R_T1T0_MSB |-> 0, R_T0_degC |-> 160, R_T1_degC |-> 240,
       R_T0_OUT_MSB |-> 0, R_T0_OUT_LSB |-> 0,
       R_T1_OUT_MSB |-> T1_OUT_MSB, R_T1_OUT_LSB |-> 0,
       R_H0_rH |-> 60, R_H1_rH |-> 140,
       R_H0_T0_OUT_MSB |-> 0, R_H0_T0_OUT_LSB |-> 0,
       R_H1_T0_OUT_MSB |-> 16, R_H1_T0_OUT_LSB |-> 0] : T1_OUT_MSB \in {2, 0} }

\* The locals of __init__ for the calibration registers r it has read
HTS221_T0_deg(r) == (r.R_T1T0_MSB % 4) * 256 + r.R_T0_degC
HTS221_T1_deg(r) == ((r.R_T1T0_MSB \div 4) % 4) * 256 + r.R_T1_degC
HTS221_T0_adc(r) == HTS221_adc(r.R_T0_OUT_MSB, r.R_T0_OUT_LSB)
HTS221_T1_adc(r) == HTS221_adc(r.R_T1_OUT_MSB, r.R_T1_OUT_LSB)
HTS221_H0_adc(r) == HTS221_adc(r.R_H0_T0_OUT_MSB, r.R_H0_T0_OUT_LSB)
HTS221_H1_adc(r) == HTS221_adc(r.R_H1_T0_OUT_MSB, r.R_H1_T0_OUT_LSB)

\* The temperature scaling factors __init__ computes (lines 67-79)
HTS221_calibration_T(r) ==
    [Tref_deg |-> FDivInt(FFromInt(HTS221_T0_deg(r)), 8),
     Tref_adc |-> FFromInt(HTS221_T0_adc(r)),
     Tscale   |-> FDivInt(FDivInt(FFromInt(HTS221_T1_deg(r) - HTS221_T0_deg(r)), 8),
                          HTS221_T1_adc(r) - HTS221_T0_adc(r))]

\* The humidity scaling factors __init__ computes (lines 82-93)
HTS221_calibration_H(r) ==
    [Href_rH  |-> FDivInt(FFromInt(r.R_H0_rH), 2),
     Href_adc |-> FFromInt(HTS221_H0_adc(r)),
     Hscale   |-> FDivInt(FDivInt(FFromInt(r.R_H1_rH - r.R_H0_rH), 2),
                          HTS221_H1_adc(r) - HTS221_H0_adc(r))]

\* "/ (T1_adc - T0_adc)" and "/ (H1_adc - H0_adc)" raise ZeroDivisionError
\* when the two calibration codes are equal
HTS221_ZeroDivision_T(r) == HTS221_T1_adc(r) = HTS221_T0_adc(r)

HTS221_ZeroDivision_H(r) == HTS221_H1_adc(r) = HTS221_H0_adc(r)

\* The scaling factors of a device whose construction has completed
HTS221_calibration(r) == HTS221_calibration_T(r) @@ HTS221_calibration_H(r)

\* Mutant: the reference code not subtracted
HTS221_get_temperature_NoReference(c, b) ==
    FAdd(c.Tref_deg, FMul(c.Tscale, FFromInt(HTS221_adc(b[1], b[2]))))

\* b = <<R_TEMP_OUT_H, R_TEMP_OUT_L>> as read
HTS221_get_temperature(c, b) ==
    FAdd(c.Tref_deg, FMul(c.Tscale, FSub(FFromInt(HTS221_adc(b[1], b[2])), c.Tref_adc)))

\* the argument of min in get_humidity: the humidity before it is clamped
HTS221_humidity_unclamped(c, b) ==
    FAdd(c.Href_rH, FMul(c.Hscale, FSub(FFromInt(HTS221_adc(b[1], b[2])), c.Href_adc)))

\* Mutant: clamped from below only
HTS221_get_humidity_NoUpperClamp(c, b) ==
    FMax(FFromInt(0), HTS221_humidity_unclamped(c, b))

\* b = <<R_HUMIDITY_OUT_H, R_HUMIDITY_OUT_L>> as read
HTS221_get_humidity(c, b) ==
    FMax(FFromInt(0), FMin(FFromInt(100), HTS221_humidity_unclamped(c, b)))

-----------------------------------------------------------------------------
(* LPS22HB: value computation *)

\* (H << 16) + (L << 8) + XL, then "pressure -= (1 << 24) if (pressure & 0x800000) else 0"
LPS22HB_pressure_code(h, l, xl) ==
    LET p == h * 65536 + l * 256 + xl
    IN  IF (p \div 8388608) % 2 = 1 THEN p - 16777216 ELSE p

\* (H << 8) + L, then "temperature -= (1 << 16) if (temperature & 0x8000) else 0"
LPS22HB_temperature_code(h, l) ==
    LET x == h * 256 + l
    IN  IF (x \div 32768) % 2 = 1 THEN x - 65536 ELSE x

\* b = <<R_PRESS_OUT_H, R_PRESS_OUT_L, R_PRESS_OUT_XL>> as read
LPS22HB_get_pressure(b) ==
    FDivInt(FFromInt(LPS22HB_pressure_code(b[1], b[2], b[3])), 4096)

\* b = <<R_TEMP_OUT_H, R_TEMP_OUT_L>> as read
LPS22HB_get_temperature(b) ==
    FDivInt(FFromInt(LPS22HB_temperature_code(b[1], b[2])), 100)

-----------------------------------------------------------------------------
(* VEML6075: coefficients and value computation *)

C_UVA_VISIBLE == 222
C_UVA_IR == 133
C_UVA_RESPONSIVITY == 1491
C_UVB_VISIBLE == 295
C_UVB_IR == 174
C_UVB_RESPONSIVITY == 2591

\* The attributes __init__ sets, in the order set_uv_coefficients assigns them.
CoefFields == <<"coef_uva_visible", "coef_uva_ir", "coef_uva_responsivity",
                "coef_uvb_visible", "coef_uvb_ir", "coef_uvb_responsivity">>

CoefFieldSet == {CoefFields[i] : i \in 1..Len(CoefFields)}

VEML6075_coefficients ==
    [coef_integration      |-> 8,
     coef_uva_visible      |-> C_UVA_VISIBLE,
     coef_uva_ir           |-> C_UVA_IR,
     coef_uva_responsivity |-> C_UVA_RESPONSIVITY,
     coef_uvb_visible      |-> C_UVB_VISIBLE,
     coef_uvb_ir           |-> C_UVB_IR,
     coef_uvb_responsivity |-> C_UVB_RESPONSIVITY]

\* Arguments callers pass to set_uv_coefficients (an open-air calibration).
CoefficientArgs ==
    { [coef_uva_visible      |-> 259,
       coef_uva_ir           |-> 180,
       coef_uva_responsivity |-> 1461,
       coef_uvb_visible      |-> 317,
       coef_uvb_ir           |-> 220,
       coef_uvb_responsivity |-> 2303] }

\* The double a coefficient is: the state keeps visible and IR coefficients
\* in 1/100 and responsivities in 1/1000000, and float(<decimal literal>) is
\* the double nearest to the decimal.
CoefFloat(c, field) ==
    IF field \in {"coef_uva_responsivity", "coef_uvb_responsivity"}
    THEN FDivInt(FFromInt(c[field]), 1000000)
    ELSE FDivInt(FFromInt(c[field]), 100)

\* The locals of get_uv_index, for the coefficients c and the contents
\* b = <<R_UVCOMP1_Data, R_UVCOMP2_Data, R_UVA_Data, R_UVB_Data>> as read:
\* uv_comp_visible is b[1], uv_comp_ir b[2], uva_raw b[3], uvb_raw b[4]
VEML6075_uva_digital(c, b) ==
    FSub(FSub(FFromInt(b[3]),
              FMul(CoefFloat(c, "coef_uva_visible"), FFromInt(b[1]))),
         FMul(CoefFloat(c, "coef_uva_ir"), FFromInt(b[2])))

\* Mutant: the UVA contribution not clamped
VEML6075_uva_Unclamped(c, b) ==
    FDivInt(FMul(VEML6075_uva_digital(c, b), CoefFloat(c, "coef_uva_responsivity")),
            c.coef_integration)

VEML6075_uva(c, b) ==
    FMax(FFromInt(0),
         FDivInt(FMul(VEML6075_uva_digital(c, b), CoefFloat(c, "coef_uva_responsivity")),
                 c.coef_integration))

VEML6075_uvb_digital(c, b) ==
    FSub(FSub(FFromInt(b[4]),
              FMul(CoefFloat(c, "coef_uvb_visible"), FFromInt(b[1]))),
         FMul(CoefFloat(c, "coef_uvb_ir"), FFromInt(b[2])))

VEML6075_uvb(c, b) ==
    FMax(FFromInt(0),
         FDivInt(FMul(VEML6075_uvb_digital(c, b), CoefFloat(c, "coef_uvb_responsivity")),
                 c.coef_integration))

\* (uva + uvb) / 2
VEML6075_get_uv_index(c, b) == FDivInt(FAdd(VEML6075_uva(c, b), VEML6075_uvb(c, b)), 2)

\* Mutant: the bounds of the bands closed above instead of open
VEML6075_str_uv_intensity_ClosedAbove(index) ==
    IF ~FLess(FFromInt(2), index) THEN "Low"
    ELSE IF ~FLess(FFromInt(5), index) THEN "Moderate"
    ELSE IF ~FLess(FFromInt(7), index) THEN "High"
    ELSE IF ~FLess(FFromInt(10), index) THEN "Very high"
    ELSE IF ~FLess(FFromInt(12), index) THEN "Extreme"
    ELSE "Error"

\* str_uv_intensity(index)
VEML6075_str_uv_intensity(index) ==
    IF FLess(index, FFromInt(2)) THEN "Low"
    ELSE IF FLess(index, FFromInt(5)) THEN "Moderate"
    ELSE IF FLess(index, FFromInt(7)) THEN "High"
    ELSE IF FLess(index, FFromInt(10)) THEN "Very high"
    ELSE IF FLess(index, FFromInt(12)) THEN "Extreme"
    ELSE "Error"

-----------------------------------------------------------------------------
(* The bus *)

\* The data registers an accessor reads, in the order it reads them.
HTS221_registers(device_class) ==
    CASE device_class = "temperature" -> <<"R_TEMP_OUT_H", "R_TEMP_OUT_L">>
      [] device_class = "humidity"    -> <<"R_HUMIDITY_OUT_H", "R_HUMIDITY_OUT_L">>

VEML6075_registers(device_class) ==
    CASE device_class = "uv" -> <<"R_UVCOMP1_Data", "R_UVCOMP2_Data", "R_UVA_Data", "R_UVB_Data">>

LPS22HB_registers(sensor_function) ==
    CASE sensor_function = "get_pressure"    -> <<"R_PRESS_OUT_H", "R_PRESS_OUT_L", "R_PRESS_OUT_XL">>
      [] sensor_function = "get_temperature" -> <<"R_TEMP_OUT_H", "R_TEMP_OUT_L">>

Registers(kind) ==
    CASE variant = "HTS221"   -> HTS221_registers(kind)
      [] variant = "VEML6075" -> VEML6075_registers(kind)
      [] variant = "LPS22HB"  -> LPS22HB_registers(kind)

\* What the chip may hold in a data register when it is read (bytes for
\* HTS221 and LPS22HB, 16-bit words for VEML6075).
BusData(r) ==
    CASE r \in {"R_HUMIDITY_OUT_H", "R_PRESS_OUT_H"} -> {1, 255}
      [] r = "R_TEMP_OUT_H" -> {255}
      [] r \in {"R_TEMP_OUT_L", "R_HUMIDITY_OUT_L", "R_PRESS_OUT_L", "R_PRESS_OUT_XL"} -> {128}
      [] r \in {"R_UVCOMP1_Data", "R_UVCOMP2_Data"} -> {10}
      [] r = "R_UVA_Data" -> {0, 1000}
      [] r = "R_UVB_Data" -> {500}

\* every sequence of contents the bus may deliver for the registers regs
RECURSIVE Readings(_)
Readings(regs) ==
    IF regs = <<>>
    THEN {<<>>}
    ELSE {<<d>> \o b : d \in BusData(Head(regs)), b \in Readings(Tail(regs))}

\* The calibrations a constructed HTS221 can have, and the coefficients a
\* VEML6075 can have (the defaults, and each stage of set_uv_coefficients).
HTS221_Calibrations ==
    {HTS221_calibration(r) :
        r \in {x \in HTS221_CalibrationRegisters :
                  ~HTS221_ZeroDivision_T(x) /\ ~HTS221_ZeroDivision_H(x)}}

VEML6075_Coefficients ==
    {[f \in DOMAIN VEML6075_coefficients |->
         IF \E j \in 1..i : CoefFields[j] = f THEN c[f] ELSE VEML6075_coefficients[f]] :
        c \in CoefficientArgs, i \in 0..Len(CoefFields)}

\* The accessors' results for the contents the bus delivers, computed once
\* and written out (<<>> @@ f is f as an explicit table): table[<<c, b>>] is
\* the accessor's result on calibration c and contents b.
HTS221_temperatures ==
    <<>> @@ [x \in HTS221_Calibrations \X Readings(HTS221_registers("temperature")) |->
              HTS221_get_temperature(x[1], x[2])]

HTS221_humidities ==
    <<>> @@ [x \in HTS221_Calibrations \X Readings(HTS221_registers("humidity")) |->
              HTS221_get_humidity(x[1], x[2])]

VEML6075_uv_indexes ==
    <<>> @@ [x \in VEML6075_Coefficients \X Readings(VEML6075_registers("uv")) |->
              VEML6075_get_uv_index(x[1], x[2])]

LPS22HB_pressures ==
    <<>> @@ [x \in {<<>>} \X Readings(LPS22HB_registers("get_pressure")) |->
              LPS22HB_get_pressure(x[2])]

LPS22HB_temperatures ==
    <<>> @@ [x \in {<<>>} \X Readings(LPS22HB_registers("get_temperature")) |->
              LPS22HB_get_temperature(x[2])]

\* the result v of an accessor, from the table when it holds it
Result(table, c, b, v) == IF <<c, b>> \in DOMAIN table THEN table[<<c, b>>] ELSE v

\* The value run() fetches for a record, from the register values b read:
\* HTS221.run and VEML6075.run choose the accessor by device_class,
\* LPS22HB.run calls the record's sensor_function.
HTS221_value(device_class, b) ==
    CASE device_class = "temperature" ->
             Result(HTS221_temperatures, calib, b, HTS221_get_temperature(calib, b))
      [] device_class = "humidity" ->
             Result(HTS221_humidities, calib, b, HTS221_get_humidity(calib, b))

VEML6075_value(device_class, b) ==
    CASE device_class = "uv" ->
             Result(VEML6075_uv_indexes, coef, b, VEML6075_get_uv_index(coef, b))

LPS22HB_value(sensor_function, b) ==
    CASE sensor_function = "get_pressure" ->
             Result(LPS22HB_pressures, <<>>, b, LPS22HB_get_pressure(b))
      [] sensor_function = "get_temperature" ->
             Result(LPS22HB_temperatures, <<>>, b, LPS22HB_get_temperature(b))

SensorValue(kind, b) ==
    CASE variant = "HTS221"   -> HTS221_value(kind, b)
      [] variant = "VEML6075" -> VEML6075_value(kind, b)
      [] variant = "LPS22HB"  -> LPS22HB_value(kind, b)

-----------------------------------------------------------------------------
(* A Python dict in insertion order: a sequence of [key, entity] *)

DictKeys(d) == {d[i].key : i \in 1..Len(d)}

\* d[k], as a set: empty when k is not a key
DictGet(d, k) == {d[i].entity : i \in {j \in 1..Len(d) : d[j].key = k}}

\* Mutant: d.setdefault(k, e), which keeps the value of an existing key
DictSet_KeepFirst(d, k, e) ==
    IF k \in {d[i].key : i \in 1..Len(d)}
    THEN d
    ELSE Append(d, [key |-> k, entity |-> e])

\* d[k] = e: replaces the value of an existing key in place, else appends
DictSet(d, k, e) ==
    IF k \in DictKeys(d)
    THEN [i \in 1..Len(d) |-> IF d[i].key = k THEN [key |-> k, entity |-> e] ELSE d[i]]
    ELSE Append(d, [key |-> k, entity |-> e])

-----------------------------------------------------------------------------
(* __init__: identification, configuration, calibration, registration *)

\* the constant __init__ compares the identification register with
\* (0xBC, 0x0026, 0xB1)
ExpectedId ==
    CASE variant = "HTS221"   -> 188
      [] variant = "VEML6075" -> 38
      [] variant = "LPS22HB"  -> 177

\* what the chip at the address may return as its identification
DeviceIds == {ExpectedId, 0}

IdRegisters == {"R_WHO_AM_I", "R_ID"}

Step(op, reg) == [op |-> op, reg |-> reg]

\* Mutant: the device registered with the bus before its calibration is read
HTS221_init_RegisterFirst ==
    << Step("read", "R_WHO_AM_I"),
       Step("register_device", ""),
       Step("write", "R_AV_CONF"),
       Step("write", "R_CTRL_REG1"),
       Step("read", "R_T1T0_MSB"),
       Step("read", "R_T0_degC"),
       Step("read", "R_T1_degC"),
       Step("read", "R_T0_OUT_MSB"),
       Step("read", "R_T0_OUT_LSB"),
       Step("read", "R_T1_OUT_MSB"),
       Step("read", "R_T1_OUT_LSB"),
       Step("compute", "T"),
       Step("read", "R_H0_rH"),
       Step("read", "R_H1_rH"),
       Step("read", "R_H0_T0_OUT_MSB"),
       Step("read", "R_H0_T0_OUT_LSB"),
       Step("read", "R_H1_T0_OUT_MSB"),
       Step("read", "R_H1_T0_OUT_LSB"),
       Step("compute", "H"),
       Step("return", "") >>

\* Mutant: the calibration read before the device is configured
HTS221_init_CalibrationFirst ==
    << Step("read", "R_WHO_AM_I"),
       Step("read", "R_T1T0_MSB"),
       Step("read", "R_T0_degC"),
       Step("read", "R_T1_degC"),
       Step("read", "R_T0_OUT_MSB"),
       Step("read", "R_T0_OUT_LSB"),
       Step("read", "R_T1_OUT_MSB"),
       Step("read", "R_T1_OUT_LSB"),
       Step("compute", "T"),
       Step("read", "R_H0_rH"),
       Step("read", "R_H1_rH"),
       Step("read", "R_H0_T0_OUT_MSB"),
       Step("read", "R_H0_T0_OUT_LSB"),
       Step("read", "R_H1_T0_OUT_MSB"),
       Step("read", "R_H1_T0_OUT_LSB"),
       Step("compute", "H"),
       Step("write", "R_AV_CONF"),
       Step("write", "R_CTRL_REG1"),
       Step("register_device", ""),
       Step("return", "") >>

\* The statements of HTS221.__init__ after the assignments of lines 43-49, in
\* program order: bus reads and writes, the computation of the scaling
\* factors, bus.register_device(self), and the return.
HTS221_init ==
    << Step("read", "R_WHO_AM_I"),
       Step("write", "R_AV_CONF"),
       Step("write", "R_CTRL_REG1"),
       Step("read", "R_T1T0_MSB"),
       Step("read", "R_T0_degC"),
       Step("read", "R_T1_degC"),
       Step("read", "R_T0_OUT_MSB"),
       Step("read", "R_T0_OUT_LSB"),
       Step("read", "R_T1_OUT_MSB"),
       Step("read", "R_T1_OUT_LSB"),
       Step("compute", "T"),
       Step("read", "R_H0_rH"),
       Step("read", "R_H1_rH"),
       Step("read", "R_H0_T0_OUT_MSB"),
       Step("read", "R_H0_T0_OUT_LSB"),
       Step("read", "R_H1_T0_OUT_MSB"),
       Step("read", "R_H1_T0_OUT_LSB"),
       Step("compute", "H"),
       Step("register_device", ""),
       Step("return", "") >>

\* VEML6075.__init__ after lines 33-39
VEML6075_init ==
    << Step("read", "R_ID"),
       Step("write", "R_UV_CONF"),
       Step("coefficients", ""),
       Step("register_device", ""),
       Step("return", "") >>

\* LPS22HB.__init__ after lines 38-42: it does not register with the bus
LPS22HB_init ==
    << Step("read", "R_WHO_AM_I"),
       Step("write", "R_CTRL_REG1"),
       Step("return", "") >>

InitProgram ==
    CASE variant = "HTS221"   -> HTS221_init
      [] variant = "VEML6075" -> VEML6075_init
      [] variant = "LPS22HB"  -> LPS22HB_init

\* the statement __init__ is at
InitAt(op) ==
    /\ init_pc \in 1..Len(InitProgram)
    /\ InitProgram[init_pc].op = op

InitStep == InitProgram[init_pc]

\* the transactions the bus has seen from __init__
BusLogged == Append(bus_log, InitStep)

\* Mutant: a device that refuses a chip with another identification
IdentificationRaises_OnMismatch(id) == id # ExpectedId

\* "if device_id != ...: _LOGGER.warning(...)": a mismatch is logged, not raised
IdentificationRaises(id) == FALSE

\* Initial state: the object after the assignments at the head of __init__
\* (address, slowdown, counter, lock, empty dict), before its first bus access
\* the device before its __init__ has run a statement
InitDevice ==
    /\ variant \in Variants
    /\ slowdown \in (IF variant = "LPS22HB" THEN {0} ELSE Slowdowns)
    /\ slowdown_counter = 0
    /\ device_lock = NoThread
    /\ entities = <<>>
    /\ coef = <<>>
    /\ calib = <<>>
    /\ pc = [t \in Threads |-> "idle"]
    /\ idx = [t \in Threads |-> 0]
    /\ buf = [t \in Threads |-> <<>>]
    /\ value = [t \in Threads |-> <<>>]
    /\ pending = [t \in Threads |-> NoException]
    /\ arg = [t \in Threads |-> {}]
    /\ runCalls = 0
    /\ dispatchCalls = {}
    /\ snap = [t \in Threads |-> <<>>]
    /\ pushed = [t \in Threads |-> <<>>]
    /\ lastReg = [k \in Keys |-> {}]
    /\ overwritten = [t \in Threads |-> {}]
    /\ bus_failed = FALSE
    /\ init_pc = 1
    /\ device_id = <<>>
    /\ cal_regs = <<>>
    /\ init_raised = NoException
    /\ registered = FALSE
    /\ bus_log = <<>>

Init == InitDevice /\ calc = <<>>

\* device_id = self[R_WHO_AM_I] / self[R_ID], and the test of the value
InitReadId ==
    /\ InitAt("read")
    /\ InitStep.reg \in IdRegisters
    /\ \E id \in DeviceIds :
         /\ device_id' = <<id>>
         /\ IF IdentificationRaises(id)
            THEN /\ init_raised' = "ValueError"
                 /\ init_pc' = 0
            ELSE /\ init_pc' = init_pc + 1
                 /\ UNCHANGED init_raised
    /\ bus_log' = BusLogged
    /\ UNCHANGED <<devVars, thrVars, histVars, cal_regs, registered, calc>>

\* self[<calibration register>]
InitReadCalibration ==
    /\ InitAt("read")
    /\ InitStep.reg \notin IdRegisters
    /\ \E r \in HTS221_CalibrationRegisters :
         cal_regs' = (InitStep.reg :> r[InitStep.reg]) @@ cal_regs
    /\ init_pc' = init_pc + 1
    /\ bus_log' = BusLogged
    /\ UNCHANGED <<devVars, thrVars, histVars, device_id, init_raised, registered, calc>>

\* self[<configuration register>] = ...
InitWrite ==
    /\ InitAt("write")
    /\ init_pc' = init_pc + 1
    /\ bus_log' = BusLogged
    /\ UNCHANGED <<devVars, thrVars, histVars, device_id, cal_regs, init_raised, registered, calc>>

\* the bus raises in a read or a write of __init__: the exception leaves
\* __init__, no object is returned
InitBusFail ==
    /\ InitAt("read") \/ InitAt("write")
    /\ init_raised' = "IOError"
    /\ init_pc' = 0
    /\ bus_log' = BusLogged
    /\ UNCHANGED <<devVars, thrVars, histVars, device_id, cal_regs, registered, calc>>

\* HTS221: the scaling factors of a quantity, from the registers read
InitCompute ==
    /\ InitAt("compute")
    /\ LET zero == IF InitStep.reg = "T"
                   THEN HTS221_ZeroDivision_T(cal_regs)
                   ELSE HTS221_ZeroDivision_H(cal_regs)
       IN  IF zero
           THEN /\ init_raised' = "ZeroDivisionError"
                /\ init_pc' = 0
                /\ UNCHANGED calib
           ELSE /\ calib' = IF InitStep.reg = "T"
                            THEN HTS221_calibration_T(cal_regs)
                            ELSE calib @@ HTS221_calibration_H(cal_regs)
                /\ init_pc' = init_pc + 1
                /\ UNCHANGED init_raised
    /\ UNCHANGED <<variant, slowdown, slowdown_counter, device_lock, entities, coef>>
    /\ UNCHANGED <<thrVars, histVars, device_id, cal_regs, registered, bus_log, calc>>

\* VEML6075: self.coef_integration = 8 and the six default coefficients
InitCoefficients ==
    /\ InitAt("coefficients")
    /\ coef' = VEML6075_coefficients
    /\ init_pc' = init_pc + 1
    /\ UNCHANGED <<variant, slowdown, slowdown_counter, device_lock, entities, calib>>
    /\ UNCHANGED <<thrVars, histVars, device_id, cal_regs, init_raised, registered, bus_log, calc>>

\* self._bus.register_device(self): from here on the bus manager thread polls
\* the device
InitRegisterDevice ==
    /\ InitAt("register_device")
    /\ registered' = TRUE
    /\ init_pc' = init_pc + 1
    /\ UNCHANGED <<devVars, thrVars, histVars, device_id, cal_regs, init_raised, bus_log, calc>>

\* _LOGGER.info("... device created") and the return of the object
InitReturn ==
    /\ InitAt("return")
    /\ init_pc' = init_pc + 1
    /\ device_id' = <<>>
    /\ cal_regs' = <<>>
    /\ UNCHANGED <<devVars, thrVars, histVars, init_raised, registered, bus_log, calc>>

\* the callers of the device have the object: __init__ has returned it
Constructed == init_pc > Len(InitProgram)

\* the bus manager thread calls run() on the devices registered with it; a
\* LPS22HB, which does not register, is polled by whoever holds the object
Pollable == IF variant = "LPS22HB" THEN Constructed ELSE registered

-----------------------------------------------------------------------------
(* __enter__ and __exit__: the with statement on the device *)

\* Mutant: an acquire that does not wait for the holder
LockAvailable_NonBlocking == TRUE

\* threading.Lock.acquire() returns only when the lock is free
LockAvailable == device_lock = NoThread

\* Mutant: registration does not take the lock
Enter_RegisterUnlocked(t) ==
    /\ pc[t] \in {"run", "register"}
    /\ pc[t] = "run" => device_lock = NoThread
    /\ device_lock' = IF pc[t] = "run" THEN t ELSE device_lock
    /\ pc' = [pc EXCEPT ![t] = IF pc[t] = "run" THEN "run_locked" ELSE "register_locked"]
    /\ snap' = [snap EXCEPT ![t] = entities]
    /\ UNCHANGED <<variant, slowdown, slowdown_counter, entities, coef, calib>>
    /\ UNCHANGED <<idx, buf, value, pending, arg>>
    /\ UNCHANGED <<runCalls, dispatchCalls, pushed, lastReg, overwritten, bus_failed>>
    /\ UNCHANGED <<initVars, calc>>

\* with self: (entering), in run() and in the registration methods
Enter(t) ==
    /\ pc[t] \in {"run", "register"}
    /\ LockAvailable
    /\ device_lock' = t
    /\ pc' = [pc EXCEPT ![t] = IF pc[t] = "run" THEN "run_locked" ELSE "register_locked"]
    /\ snap' = [snap EXCEPT ![t] = entities]
    /\ UNCHANGED <<variant, slowdown, slowdown_counter, entities, coef, calib>>
    /\ UNCHANGED <<idx, buf, value, pending, arg>>
    /\ UNCHANGED <<runCalls, dispatchCalls, pushed, lastReg, overwritten, bus_failed>>
    /\ UNCHANGED <<initVars, calc>>

\* Mutant: release at the end of the block only, not when an exception unwinds
ReleasedOnExit_NormalOnly(exception) == exception = NoException

\* __exit__ releases the lock whether or not an exception is unwinding
ReleasedOnExit(exception) == TRUE

\* with self: (leaving); __exit__ returns False, so a pending exception goes on
\* to the caller of the method
Exit(t) ==
    /\ pc[t] \in {"run_exit", "register_exit"}
    /\ device_lock' = IF ReleasedOnExit(pending[t]) THEN NoThread ELSE device_lock
    /\ pc' = [pc EXCEPT ![t] = "idle"]
    /\ idx' = [idx EXCEPT ![t] = 0]
    /\ buf' = [buf EXCEPT ![t] = <<>>]
    /\ value' = [value EXCEPT ![t] = <<>>]
    /\ pending' = [pending EXCEPT ![t] = NoException]
    /\ arg' = [arg EXCEPT ![t] = {}]
    /\ snap' = [snap EXCEPT ![t] = <<>>]
    /\ pushed' = [pushed EXCEPT ![t] = <<>>]
    /\ bus_failed' = (bus_failed \/ pending[t] = "IOError")
    /\ UNCHANGED <<variant, slowdown, slowdown_counter, entities, coef, calib>>
    /\ UNCHANGED <<runCalls, dispatchCalls, lastReg, overwritten>>
    /\ UNCHANGED <<initVars, calc>>

-----------------------------------------------------------------------------
(* run() *)

\* a thread calls run() on the device
CallRun(t) ==
    /\ Pollable
    /\ pc[t] = "idle"
    /\ runCalls + Cardinality({u \in Threads : pc[u] \in {"run", "run_locked"}}) < MaxCalls
    /\ pc' = [pc EXCEPT ![t] = "run"]
    /\ overwritten' = [overwritten EXCEPT ![t] = {}]
    /\ UNCHANGED <<devVars, idx, buf, value, pending, arg>>
    /\ UNCHANGED <<runCalls, dispatchCalls, snap, pushed, lastReg, bus_failed>>
    /\ UNCHANGED <<initVars, calc>>

\* Mutant: the comparison off by one
Decimated_OffByOne(counter) == counter >= 0

\* Mutant: a device that remembers a failed bus read and stops polling
Decimated_OrFaulted(counter) == counter > 0 \/ bus_failed

\* "if self._slowdown_counter > 0: return", on the decremented counter
Decimated(counter) == counter > 0

\* Mutant: the counter is not reset when a pass starts
Decimate_NoReset(t) ==
    /\ pc[t] = "run_locked"
    /\ variant \in {"HTS221", "VEML6075"}
    /\ runCalls' = runCalls + 1
    /\ IF Decimated(slowdown_counter - 1)
       THEN /\ slowdown_counter' = slowdown_counter - 1
            /\ pc' = [pc EXCEPT ![t] = "run_exit"]
            /\ UNCHANGED <<idx, dispatchCalls>>
       ELSE /\ slowdown_counter' = slowdown_counter - 1
            /\ pc' = [pc EXCEPT ![t] = "run_loop"]
            /\ idx' = [idx EXCEPT ![t] = 1]
            /\ dispatchCalls' = dispatchCalls \cup {runCalls + 1}
    /\ UNCHANGED <<variant, slowdown, device_lock, entities, coef, calib>>
    /\ UNCHANGED <<buf, value, pending, arg>>
    /\ UNCHANGED <<snap, pushed, lastReg, overwritten, bus_failed>>
    /\ UNCHANGED <<initVars, calc>>

\* Mutant: a decimated call goes through the entities all the same
Decimate_PollsWhenDecimated(t) ==
    /\ pc[t] = "run_locked"
    /\ variant \in {"HTS221", "VEML6075"}
    /\ runCalls' = runCalls + 1
    /\ IF Decimated(slowdown_counter - 1)
       THEN /\ slowdown_counter' = slowdown_counter - 1
            /\ pc' = [pc EXCEPT ![t] = "run_loop"]
            /\ idx' = [idx EXCEPT ![t] = 1]
            /\ UNCHANGED dispatchCalls
       ELSE /\ slowdown_counter' = slowdown
            /\ pc' = [pc EXCEPT ![t] = "run_loop"]
            /\ idx' = [idx EXCEPT ![t] = 1]
            /\ dispatchCalls' = dispatchCalls \cup {runCalls + 1}
    /\ UNCHANGED <<variant, slowdown, device_lock, entities, coef, calib>>
    /\ UNCHANGED <<buf, value, pending, arg>>
    /\ UNCHANGED <<snap, pushed, lastReg, overwritten, bus_failed>>
    /\ UNCHANGED <<initVars, calc>>

\* Mutant: the counter reset to one less than the period
Decimate_ResetOneShort(t) ==
    /\ pc[t] = "run_locked"
    /\ variant \in {"HTS221", "VEML6075"}
    /\ runCalls' = runCalls + 1
    /\ IF Decimated(slowdown_counter - 1)
       THEN /\ slowdown_counter' = slowdown_counter - 1
            /\ pc' = [pc EXCEPT ![t] = "run_exit"]
            /\ UNCHANGED <<idx, dispatchCalls>>
       ELSE /\ slowdown_counter' = slowdown - 1
            /\ pc' = [pc EXCEPT ![t] = "run_loop"]
            /\ idx' = [idx EXCEPT ![t] = 1]
            /\ dispatchCalls' = dispatchCalls \cup {runCalls + 1}
    /\ UNCHANGED <<variant, slowdown, device_lock, entities, coef, calib>>
    /\ UNCHANGED <<buf, value, pending, arg>>
    /\ UNCHANGED <<snap, pushed, lastReg, overwritten, bus_failed>>
    /\ UNCHANGED <<initVars, calc>>

\* HTS221.run / VEML6075.run: decrement, return while positive, else reset
\* the counter and start the pass
Decimate(t) ==
    /\ pc[t] = "run_locked"
    /\ variant \in {"HTS221", "VEML6075"}
    /\ runCalls' = runCalls + 1
    /\ IF Decimated(slowdown_counter - 1)
       THEN /\ slowdown_counter' = slowdown_counter - 1
            /\ pc' = [pc EXCEPT ![t] = "run_exit"]
            /\ UNCHANGED <<idx, dispatchCalls>>
       ELSE /\ slowdown_counter' = slowdown
            /\ pc' = [pc EXCEPT ![t] = "run_loop"]
            /\ idx' = [idx EXCEPT ![t] = 1]
            /\ dispatchCalls' = dispatchCalls \cup {runCalls + 1}
    /\ UNCHANGED <<variant, slowdown, device_lock, entities, coef, calib>>
    /\ UNCHANGED <<buf, value, pending, arg>>
    /\ UNCHANGED <<snap, pushed, lastReg, overwritten, bus_failed>>
    /\ UNCHANGED <<initVars, calc>>

\* Mutant: LPS22HB.run passing over every other call
LPS22HB_run_EveryOther(t) ==
    /\ pc[t] = "run_locked"
    /\ variant = "LPS22HB"
    /\ runCalls' = runCalls + 1
    /\ IF runCalls % 2 = 1
       THEN /\ pc' = [pc EXCEPT ![t] = "run_exit"]
            /\ UNCHANGED <<idx, dispatchCalls>>
       ELSE /\ pc' = [pc EXCEPT ![t] = "run_loop"]
            /\ idx' = [idx EXCEPT ![t] = 1]
            /\ dispatchCalls' = dispatchCalls \cup {runCalls + 1}
    /\ UNCHANGED <<devVars, buf, value, pending, arg>>
    /\ UNCHANGED <<snap, pushed, lastReg, overwritten, bus_failed>>
    /\ UNCHANGED <<initVars, calc>>

\* LPS22HB.run: every call starts the pass
LPS22HB_run(t) ==
    /\ pc[t] = "run_locked"
    /\ variant = "LPS22HB"
    /\ runCalls' = runCalls + 1
    /\ pc' = [pc EXCEPT ![t] = "run_loop"]
    /\ idx' = [idx EXCEPT ![t] = 1]
    /\ dispatchCalls' = dispatchCalls \cup {runCalls + 1}
    /\ UNCHANGED <<devVars, buf, value, pending, arg>>
    /\ UNCHANGED <<snap, pushed, lastReg, overwritten, bus_failed>>
    /\ UNCHANGED <<initVars, calc>>

\* hasattr(entity, "push_update"); LPS22HB calls entry["callback"] unconditionally
HasCallback(e) == variant = "LPS22HB" \/ e.push

\* The head of the for loop and the choice of the value function:
\* the loop ends, or the entity has no push_update and is passed over, or
\* (VEML6075, uv_intensity) self.str_uv_intensity() is called without its
\* index argument and raises TypeError, or the accessor starts reading.
ForEntity(t) ==
    /\ pc[t] = "run_loop"
    /\ IF idx[t] > Len(entities)
       THEN /\ pc' = [pc EXCEPT ![t] = "run_exit"]
            /\ UNCHANGED <<idx, buf, pending>>
       ELSE LET device_class == entities[idx[t]].key
                entity == entities[idx[t]].entity
            IN  IF ~HasCallback(entity)
                THEN /\ idx' = [idx EXCEPT ![t] = idx[t] + 1]
                     /\ UNCHANGED <<pc, buf, pending>>
                ELSE IF variant = "VEML6075" /\ device_class = "uv_intensity"
                THEN /\ pending' = [pending EXCEPT ![t] = "TypeError"]
                     /\ pc' = [pc EXCEPT ![t] = "run_exit"]
                     /\ UNCHANGED <<idx, buf>>
                ELSE /\ pc' = [pc EXCEPT ![t] = "run_read"]
                     /\ buf' = [buf EXCEPT ![t] = <<>>]
                     /\ UNCHANGED <<idx, pending>>
    /\ UNCHANGED <<devVars, value, arg, histVars>>
    /\ UNCHANGED <<initVars, calc>>

\* Mutant: the value is pushed after the with block has been left
BusRead_CallbackAfterRelease(t) ==
    /\ pc[t] = "run_read"
    /\ LET entity == entities[idx[t]].entity
           regs == Registers(entity.kind)
       IN  \E data \in BusData(regs[Len(buf[t]) + 1]) :
             LET b == Append(buf[t], data)
             IN  IF Len(b) < Len(regs)
                 THEN /\ buf' = [buf EXCEPT ![t] = b]
                      /\ UNCHANGED <<pc, value, pushed, device_lock>>
                 ELSE /\ buf' = [buf EXCEPT ![t] = b]
                      /\ value' = [value EXCEPT ![t] = <<SensorValue(entity.kind, b)>>]
                      /\ pc' = [pc EXCEPT ![t] = "push_update"]
                      /\ pushed' = [pushed EXCEPT ![t] = Append(pushed[t], entities[idx[t]])]
                      /\ device_lock' = NoThread
    /\ UNCHANGED <<variant, slowdown, slowdown_counter, entities, coef, calib>>
    /\ UNCHANGED <<idx, pending, arg>>
    /\ UNCHANGED <<runCalls, dispatchCalls, snap, lastReg, overwritten, bus_failed>>
    /\ UNCHANGED <<initVars, calc>>

\* Mutant: the accessor enters "with self:" before it reads
BusRead_TakesLock(t) ==
    /\ pc[t] = "run_read"
    /\ LockAvailable
    /\ LET entity == entities[idx[t]].entity
           regs == Registers(entity.kind)
       IN  \E data \in BusData(regs[Len(buf[t]) + 1]) :
             LET b == Append(buf[t], data)
             IN  IF Len(b) < Len(regs)
                 THEN /\ buf' = [buf EXCEPT ![t] = b]
                      /\ UNCHANGED <<pc, value, pushed>>
                 ELSE /\ buf' = [buf EXCEPT ![t] = b]
                      /\ value' = [value EXCEPT ![t] = <<SensorValue(entity.kind, b)>>]
                      /\ pc' = [pc EXCEPT ![t] = "push_update"]
                      /\ pushed' = [pushed EXCEPT ![t] = Append(pushed[t], entities[idx[t]])]
    /\ UNCHANGED <<devVars, idx, pending, arg>>
    /\ UNCHANGED <<runCalls, dispatchCalls, snap, lastReg, overwritten, bus_failed>>
    /\ UNCHANGED <<initVars, calc>>

\* One successful bus read of the accessor; after the last one the value is
\* computed and the callback (push_update / entry["callback"]) is entered.
BusRead(t) ==
    /\ pc[t] = "run_read"
    /\ LET entity == entities[idx[t]].entity
           regs == Registers(entity.kind)
       IN  \E data \in BusData(regs[Len(buf[t]) + 1]) :
             LET b == Append(buf[t], data)
             IN  IF Len(b) < Len(regs)
                 THEN /\ buf' = [buf EXCEPT ![t] = b]
                      /\ UNCHANGED <<pc, value, pushed>>
                 ELSE /\ buf' = [buf EXCEPT ![t] = b]
                      /\ value' = [value EXCEPT ![t] = <<SensorValue(entity.kind, b)>>]
                      /\ pc' = [pc EXCEPT ![t] = "push_update"]
                      /\ pushed' = [pushed EXCEPT ![t] = Append(pushed[t], entities[idx[t]])]
    /\ UNCHANGED <<devVars, idx, pending, arg>>
    /\ UNCHANGED <<runCalls, dispatchCalls, snap, lastReg, overwritten, bus_failed>>
    /\ UNCHANGED <<initVars, calc>>

\* Mutant: the error is kept and the loop goes on with the next entity
BusReadFail_Continues(t) ==
    /\ pc[t] = "run_read"
    /\ pending' = [pending EXCEPT ![t] = "IOError"]
    /\ pc' = [pc EXCEPT ![t] = "run_loop"]
    /\ idx' = [idx EXCEPT ![t] = idx[t] + 1]
    /\ buf' = [buf EXCEPT ![t] = <<>>]
    /\ UNCHANGED <<devVars, value, arg, histVars>>
    /\ UNCHANGED <<initVars, calc>>

\* Mutant: after a failed read the callback is entered with the value at hand
BusReadFail_PushesStale(t) ==
    /\ pc[t] = "run_read"
    /\ pending' = [pending EXCEPT ![t] = "IOError"]
    /\ pc' = [pc EXCEPT ![t] = "push_update"]
    /\ pushed' = [pushed EXCEPT ![t] = Append(pushed[t], entities[idx[t]])]
    /\ buf' = [buf EXCEPT ![t] = <<>>]
    /\ UNCHANGED <<devVars, idx, value, arg>>
    /\ UNCHANGED <<runCalls, dispatchCalls, snap, lastReg, overwritten, bus_failed>>
    /\ UNCHANGED <<initVars, calc>>

\* Mutant: a failed pass gives its slot back, the next call reads again
BusReadFail_RetriesNextCall(t) ==
    /\ pc[t] = "run_read"
    /\ pending' = [pending EXCEPT ![t] = "IOError"]
    /\ pc' = [pc EXCEPT ![t] = "run_exit"]
    /\ buf' = [buf EXCEPT ![t] = <<>>]
    /\ slowdown_counter' = IF variant = "LPS22HB" THEN slowdown_counter ELSE 1
    /\ UNCHANGED <<variant, slowdown, device_lock, entities, coef, calib>>
    /\ UNCHANGED <<idx, value, arg, histVars>>
    /\ UNCHANGED <<initVars, calc>>

\* A bus read raises: the exception leaves the accessor and the for loop
BusReadFail(t) ==
    /\ pc[t] = "run_read"
    /\ pending' = [pending EXCEPT ![t] = "IOError"]
    /\ pc' = [pc EXCEPT ![t] = "run_exit"]
    /\ buf' = [buf EXCEPT ![t] = <<>>]
    /\ UNCHANGED <<devVars, idx, value, arg, histVars>>
    /\ UNCHANGED <<initVars, calc>>

\* The callback returns: next entity
CallbackReturn(t) ==
    /\ pc[t] = "push_update"
    /\ idx' = [idx EXCEPT ![t] = idx[t] + 1]
    /\ pc' = [pc EXCEPT ![t] = "run_loop"]
    /\ buf' = [buf EXCEPT ![t] = <<>>]
    /\ UNCHANGED <<devVars, value, pending, arg, histVars>>
    /\ UNCHANGED <<initVars, calc>>

\* The callback raises: the exception leaves the for loop
CallbackRaise(t) ==
    /\ pc[t] = "push_update"
    /\ pending' = [pending EXCEPT ![t] = "CallbackError"]
    /\ pc' = [pc EXCEPT ![t] = "run_exit"]
    /\ buf' = [buf EXCEPT ![t] = <<>>]
    /\ UNCHANGED <<devVars, idx, value, arg, histVars>>
    /\ UNCHANGED <<initVars, calc>>

-----------------------------------------------------------------------------
(* register_entity() and register_sensor_callback() *)

\* a thread calls register_entity(entity) (HTS221, VEML6075) or
\* register_sensor_callback(sensor_name, sensor_function, callback) (LPS22HB)
CallRegister(t, e) ==
    /\ Constructed
    /\ t \in SetupThreads
    /\ pc[t] = "idle"
    /\ pc' = [pc EXCEPT ![t] = "register"]
    /\ arg' = [arg EXCEPT ![t] = {e}]
    /\ overwritten' = [overwritten EXCEPT ![t] = {}]
    /\ UNCHANGED <<devVars, idx, buf, value, pending>>
    /\ UNCHANGED <<runCalls, dispatchCalls, snap, pushed, lastReg, bus_failed>>
    /\ UNCHANGED <<initVars, calc>>

\* HTS221 / VEML6075: self._entities[entity.device_class] = entity
register_entity_key(e) == e.kind

\* Mutant: the dict keyed by the value function instead of the name
register_sensor_callback_key_ByFunction(e) == e.kind

\* LPS22HB: self._sensor_callbacks[sensor_name] = {...}
register_sensor_callback_key(e) == e.name

RegisterKey(e) ==
    IF variant = "LPS22HB" THEN register_sensor_callback_key(e) ELSE register_entity_key(e)

\* the assignment into the dict, under the lock
RegisterStore(t) ==
    /\ pc[t] = "register_locked"
    /\ \E e \in arg[t] :
         /\ entities' = DictSet(entities, RegisterKey(e), e)
         /\ lastReg' = [lastReg EXCEPT ![RegisterKey(e)] = {e}]
         /\ overwritten' = [overwritten EXCEPT ![t] = DictGet(entities, RegisterKey(e))]
    /\ pc' = [pc EXCEPT ![t] = "register_exit"]
    /\ UNCHANGED <<variant, slowdown, slowdown_counter, device_lock, coef, calib>>
    /\ UNCHANGED <<idx, buf, value, pending, arg>>
    /\ UNCHANGED <<runCalls, dispatchCalls, snap, pushed, bus_failed>>
    /\ UNCHANGED <<initVars, calc>>

-----------------------------------------------------------------------------
(* VEML6075.set_uv_coefficients(): six assignments, no lock *)

CallSetUvCoefficients(t, c) ==
    /\ Constructed
    /\ t \in SetupThreads
    /\ pc[t] = "idle"
    /\ variant = "VEML6075"
    /\ pc' = [pc EXCEPT ![t] = CoefFields[1]]
    /\ arg' = [arg EXCEPT ![t] = {c}]
    /\ overwritten' = [overwritten EXCEPT ![t] = {}]
    /\ UNCHANGED <<devVars, idx, buf, value, pending>>
    /\ UNCHANGED <<runCalls, dispatchCalls, snap, pushed, lastReg, bus_failed>>
    /\ UNCHANGED <<initVars, calc>>

\* Mutant: the assignment also overwrites the integration divisor
AssignCoefficient_ClobbersIntegration(c, field, v) ==
    [c EXCEPT ![field] = v, !["coef_integration"] = v]

\* self.<field> = float(<field>)
AssignCoefficient(c, field, v) == [c EXCEPT ![field] = v]

SetUvCoefficient(t) ==
    /\ pc[t] \in CoefFieldSet
    /\ LET i == CHOOSE j \in 1..Len(CoefFields) : CoefFields[j] = pc[t]
       IN  /\ \E c \in arg[t] : coef' = AssignCoefficient(coef, pc[t], c[pc[t]])
           /\ IF i < Len(CoefFields)
              THEN /\ pc' = [pc EXCEPT ![t] = CoefFields[i + 1]]
                   /\ UNCHANGED arg
              ELSE /\ pc' = [pc EXCEPT ![t] = "idle"]
                   /\ arg' = [arg EXCEPT ![t] = {}]
    /\ UNCHANGED <<variant, slowdown, slowdown_counter, device_lock, entities, calib>>
    /\ UNCHANGED <<idx, buf, value, pending, histVars>>
    /\ UNCHANGED <<initVars, calc>>

-----------------------------------------------------------------------------
(* The specification *)

Next ==
    \/ InitReadId
    \/ InitReadCalibration
    \/ InitWrite
    \/ InitBusFail
    \/ InitCompute
    \/ InitCoefficients
    \/ InitRegisterDevice
    \/ InitReturn
    \/ \E t \in Threads :
        \/ CallRun(t)
        \/ Enter(t)
        \/ Decimate(t)
        \/ LPS22HB_run(t)
        \/ ForEntity(t)
        \/ BusRead(t)
        \/ BusReadFail(t)
        \/ CallbackReturn(t)
        \/ CallbackRaise(t)
        \/ Exit(t)
        \/ \E e \in Entities : CallRegister(t, e)
        \/ RegisterStore(t)
        \/ \E c \in CoefficientArgs : CallSetUvCoefficients(t, c)
        \/ SetUvCoefficient(t)

Spec == Init /\ [][Next]_vars

\* The steps by which a method under way on thread t goes on when the bus
\* transaction or the callback it is in returns
Proceed(t) ==
    \/ Decimate(t)
    \/ LPS22HB_run(t)
    \/ ForEntity(t)
    \/ BusRead(t)
    \/ CallbackReturn(t)
    \/ Exit(t)
    \/ RegisterStore(t)
    \/ SetUvCoefficient(t)

\* Fair scheduling: a thread that can go on does, bus transactions and
\* callbacks return, and a thread waiting for the lock gets it if the lock
\* is free again and again.
FairSpec ==
    /\ Spec
    /\ \A t \in Threads : WF_vars(Proceed(t)) /\ SF_vars(Enter(t))

-----------------------------------------------------------------------------
(* The value computations on their own: each action applies one of them to  *)
(* inputs drawn from the sets below and records the application in calc.    *)
(* They read no field of a device but the calibration passed to them, so    *)
(* the device stays as constructed.                                         *)

\* the bytes a 16-bit data register pair is drawn from
Bytes == 0..255

\* the low bytes of the 24-bit pressure code
CalcLowBytes == {0, 1, 127, 128, 255}

\* Calibration registers of temperature: in 1/8 degree, 20.0 and 30.0 at
\* codes 0 and 512; 0.0 and 12.5 at codes 0 and 11; 25.0 and 37.0 (bit 2 of
\* R_T1T0_MSB set: 256 + 40) at codes -10 and 256.
CalcCalibrationRegisters_T ==
    { [R_T1T0_MSB |-> 0, R_T0_degC |-> 160, R_T1_degC |-> 240,
       R_T0_OUT_MSB |-> 0, R_T0_OUT_LSB |-> 0, R_T1_OUT_MSB |-> 2, R_T1_OUT_LSB |-> 0],
      [R_T1T0_MSB |-> 0, R_T0_degC |-> 0, R_T1_degC |-> 100,
       R_T0_OUT_MSB |-> 0, R_T0_OUT_LSB |-> 0, R_T1_OUT_MSB |-> 0, R_T1_OUT_LSB |-> 11],
      [R_T1T0_MSB |-> 4, R_T0_degC |-> 200, R_T1_degC |-> 40,
       R_T0_OUT_MSB |-> 255, R_T0_OUT_LSB |-> 246, R_T1_OUT_MSB |-> 1, R_T1_OUT_LSB |-> 0] }

\* Calibration registers of humidity: in 1/2 %, 30 and 70 at codes 0 and
\* 4096; 0 and 100 at codes 0 and 11; 20 and 75 at codes -10 and 256; 30 and
\* 70 at codes 4096 and -4096 (a falling characteristic).
CalcCalibrationRegisters_H ==
    { [R_H0_rH |-> 60, R_H1_rH |-> 140,
       R_H0_T0_OUT_MSB |-> 0, R_H0_T0_OUT_LSB |-> 0, R_H1_T0_OUT_MSB |-> 16, R_H1_T0_OUT_LSB |-> 0],
      [R_H0_rH |-> 0, R_H1_rH |-> 200,
       R_H0_T0_OUT_MSB |-> 0, R_H0_T0_OUT_LSB |-> 0, R_H1_T0_OUT_MSB |-> 0, R_H1_T0_OUT_LSB |-> 11],
      [R_H0_rH |-> 40, R_H1_rH |-> 150,
       R_H0_T0_OUT_MSB |-> 255, R_H0_T0_OUT_LSB |-> 246, R_H1_T0_OUT_MSB |-> 1, R_H1_T0_OUT_LSB |-> 0],
      [R_H0_rH |-> 60, R_H1_rH |-> 140,
       R_H0_T0_OUT_MSB |-> 16, R_H0_T0_OUT_LSB |-> 0, R_H1_T0_OUT_MSB |-> 240, R_H1_T0_OUT_LSB |-> 0] }

\* the contents of a data register pair the calibrated accessors are applied to
CalcRaw == {0, 1, 2, 16, 127, 128, 240, 255} \X {0, 11, 128, 246, 255}

\* The contents of the 16-bit data registers get_uv_index is applied to; with
\* 182, 15 and 563 in R_UVCOMP1_Data, R_UVCOMP2_Data and R_UVB_Data the
\* compensation 2.95 * 182 + 1.74 * 15 is 563 but for the rounding.
CalcWords == {0, 15, 182, 563, 65535}

\* UV indexes in tenths: the bounds of the bands, their neighbours, values
\* inside the bands and far above the last bound
CalcIndexTenths ==
    {0, 1, 10, 19, 20, 21, 35, 49, 50, 51, 60, 69, 70, 71, 85, 99, 100, 101,
     110, 119, 120, 121, 150, 5000}

\* float("<n/10>"): the double nearest to the decimal
CalcIndex == <<>> @@ [n \in CalcIndexTenths |-> FDivInt(FFromInt(n), 10)]

\* the inputs of the computation fn
CalcInputs(fn) ==
    CASE fn \in {"HTS221_adc", "LPS22HB_temperature_code"} -> Bytes \X Bytes
      [] fn = "LPS22HB_pressure_code" -> Bytes \X CalcLowBytes \X CalcLowBytes
      [] fn \in {"HTS221_get_humidity", "HTS221_humidity_unclamped"} ->
             {r \in CalcCalibrationRegisters_H : ~HTS221_ZeroDivision_H(r)} \X CalcRaw
      [] fn = "HTS221_get_temperature" ->
             {r \in CalcCalibrationRegisters_T : ~HTS221_ZeroDivision_T(r)} \X CalcRaw
      [] fn = "VEML6075_str_uv_intensity" -> CalcIndexTenths \X CalcIndexTenths
      [] fn = "VEML6075_get_uv_index" -> CalcWords \X CalcWords \X CalcWords \X CalcWords

CalcFunctions ==
    {"HTS221_adc", "LPS22HB_temperature_code", "LPS22HB_pressure_code",
     "HTS221_get_humidity", "HTS221_humidity_unclamped", "HTS221_get_temperature",
     "VEML6075_str_uv_intensity", "VEML6075_get_uv_index"}

\* fn is to be applied to calc.in
Applying(fn) == calc.fn = fn /\ ~calc.done

Applied(out) ==
    /\ calc' = [calc EXCEPT !.out = out, !.done = TRUE]
    /\ UNCHANGED <<devVars, thrVars, histVars, initVars>>

Apply_HTS221_adc ==
    /\ Applying("HTS221_adc")
    /\ Applied(HTS221_adc(calc.in[1], calc.in[2]))

Apply_LPS22HB_temperature_code ==
    /\ Applying("LPS22HB_temperature_code")
    /\ Applied(LPS22HB_temperature_code(calc.in[1], calc.in[2]))

Apply_LPS22HB_pressure_code ==
    /\ Applying("LPS22HB_pressure_code")
    /\ Applied(LPS22HB_pressure_code(calc.in[1], calc.in[2], calc.in[3]))

\* __init__'s humidity calibration on the registers calc.in[1], then
\* get_humidity on the contents calc.in[2]
Apply_HTS221_get_humidity ==
    /\ Applying("HTS221_get_humidity")
    /\ Applied(HTS221_get_humidity(HTS221_calibration_H(calc.in[1]), calc.in[2]))

\* the same without the clamp
Apply_HTS221_humidity_unclamped ==
    /\ Applying("HTS221_humidity_unclamped")
    /\ Applied(HTS221_humidity_unclamped(HTS221_calibration_H(calc.in[1]), calc.in[2]))

\* __init__'s temperature calibration on the registers calc.in[1], then
\* get_temperature on the contents calc.in[2]
Apply_HTS221_get_temperature ==
    /\ Applying("HTS221_get_temperature")
    /\ Applied(HTS221_get_temperature(HTS221_calibration_T(calc.in[1]), calc.in[2]))

\* str_uv_intensity on two indexes
Apply_VEML6075_str_uv_intensity ==
    /\ Applying("VEML6075_str_uv_intensity")
    /\ Applied(<<VEML6075_str_uv_intensity(CalcIndex[calc.in[1]]),
                 VEML6075_str_uv_intensity(CalcIndex[calc.in[2]])>>)

\* get_uv_index with the coefficients of __init__ on the contents calc.in
\* (R_UVCOMP1_Data, R_UVCOMP2_Data, R_UVA_Data, R_UVB_Data)
Apply_VEML6075_get_uv_index ==
    /\ Applying("VEML6075_get_uv_index")
    /\ Applied(VEML6075_get_uv_index(VEML6075_coefficients, calc.in))

CalcInit ==
    /\ InitDevice
    /\ variant = "LPS22HB"
    /\ \E fn \in CalcFunctions :
           \E in \in CalcInputs(fn) :
               calc = [fn |-> fn, in |-> in, out |-> <<>>, done |-> FALSE]

CalcNext ==
    \/ Apply_HTS221_adc
    \/ Apply_LPS22HB_temperature_code
    \/ Apply_LPS22HB_pressure_code
    \/ Apply_HTS221_get_humidity
    \/ Apply_HTS221_humidity_unclamped
    \/ Apply_HTS221_get_temperature
    \/ Apply_VEML6075_str_uv_intensity
    \/ Apply_VEML6075_get_uv_index

CalcSpec == CalcInit /\ [][CalcNext]_vars

\* calc records the application of fn to calc.in, with result calc.out
CalcOf(fn) == calc # <<>> /\ calc.fn = fn /\ calc.done

-----------------------------------------------------------------------------
(* Vocabulary of the properties *)

\* positions inside a with block: the thread holds the lock
LockedPcs == {"run_locked", "run_loop", "run_read", "push_update", "run_exit",
              "register_locked", "register_exit"}

\* positions of a dispatch pass: the for loop, an accessor's reads, a callback
PassPcs == {"run_loop", "run_read", "push_update"}

Decimating == variant \in {"HTS221", "VEML6075"}

EntryHasCallback(x) == HasCallback(x.entity)

\* The records of dict d, up to position n, whose callback run() invokes
CallbacksUpTo(d, n) ==
    IF n < 1 THEN <<>> ELSE SelectSeq(SubSeq(d, 1, n), EntryHasCallback)

\* How many records of the dict thread t's pass is through: the one at idx[t]
\* counts once its callback has been entered
Processed(t) ==
    IF pc[t] = "push_update" \/ pending[t] = "CallbackError" THEN idx[t] ELSE idx[t] - 1

-----------------------------------------------------------------------------
(* C1 *)

\* C1, as stated: with decimation period N >= 1 the passes are the run() calls
\* numbered N, 2N, 3N, ... (the counter starting at the period).
C1_PassOnMultiplesOfPeriod ==
    (Decimating /\ slowdown >= 1) =>
        dispatchCalls = {k \in 1..runCalls : k % slowdown = 0}

\* C1, amended: the counter starts at 0, so with decimation period N >= 1 the
\* passes are the run() calls numbered 1, N+1, 2N+1, ...; the N-1 calls after
\* each pass are no-ops.
C1_PassOnFirstCallThenEveryPeriod ==
    (Decimating /\ slowdown >= 1) =>
        /\ runCalls = 0 => slowdown_counter = 0
        /\ dispatchCalls = {k \in 1..runCalls : (k - 1) % slowdown = 0}

C1_Witness ==
    /\ Decimating
    /\ slowdown = 2
    /\ runCalls = 4
    /\ dispatchCalls = {1, 3}

-----------------------------------------------------------------------------
(* C2 *)

\* C2, as stated: when a bus read fails in a pass, no callback at all has been
\* invoked in that pass.
C2_NoCallbackInFailedPass ==
    \A t \in Threads : pending[t] = "IOError" => pushed[t] = <<>>

\* C2, amended: when a bus read fails in a pass, the pass ends there: the
\* callbacks invoked in it are exactly those of the records before the one
\* whose read failed; that record's and the later records' are not invoked.
C2_FailedPassStopsAtFailure ==
    \A t \in Threads :
        pending[t] = "IOError" =>
            /\ pc[t] = "run_exit"
            /\ pushed[t] = CallbacksUpTo(entities, idx[t] - 1)

C2_Witness ==
    \E t \in Threads :
        /\ pending[t] = "IOError"
        /\ idx[t] = 2
        /\ Len(pushed[t]) = 1

-----------------------------------------------------------------------------
(* C3 *)

-----------------------------------------------------------------------------
(* C4 *)

\* C4: HTS221 and VEML6075 hold at most one entity per device_class, the one
\* registered last, and a pass invokes push_update only on entities that are
\* the last registered of their device_class.
C4_LastRegisteredPerDeviceClass ==
    Decimating =>
        /\ \A i, j \in 1..Len(entities) : entities[i].key = entities[j].key => i = j
        /\ \A i \in 1..Len(entities) : entities[i].key = entities[i].entity.kind
        /\ \A k \in Keys : DictGet(entities, k) = lastReg[k]
        /\ \A t \in Threads : \A i \in 1..Len(pushed[t]) :
               lastReg[pushed[t][i].key] = {pushed[t][i].entity}

\* e2 was registered over e1, and a pass is pushing to e2
C4_Witness ==
    /\ Decimating
    /\ \E x \in overwritten["thread_pool"] : x.id = "e1"
    /\ \E x \in lastReg[KindA] : x.id = "e2"
    /\ pc["bus_manager"] = "push_update"
    /\ entities[idx["bus_manager"]].entity.id = "e2"

-----------------------------------------------------------------------------
(* C5 *)

-----------------------------------------------------------------------------
(* C6 *)

\* C6: throughout a pass (its reads and its callbacks) the thread running it
\* holds the device lock, no other thread is inside a with block of the
\* device, and the decimation counter stays as the pass set it.
C6_PassInsideOneLockAcquisition ==
    \A t \in Threads :
        pc[t] \in PassPcs =>
            /\ device_lock = t
            /\ \A u \in Threads \ {t} : pc[u] \notin LockedPcs
            /\ Decimating => slowdown_counter = slowdown

\* two kinds registered, the second callback of the pass executing, the other
\* thread waiting for the lock
C6_Witness ==
    \E t \in Threads :
        /\ pc[t] = "push_update"
        /\ Len(pushed[t]) = 2
        /\ pushed[t][1].entity.kind # pushed[t][2].entity.kind
        /\ \E u \in Threads \ {t} : pc[u] \in {"run", "register"}

-----------------------------------------------------------------------------
(* C7 *)

\* C7: from the moment a run() call has the lock until it leaves, the dict is
\* the one it found (a registration called meanwhile has not stored), and the
\* callbacks invoked so far are those of the records it is through, in order;
\* a pass that completes has invoked those of all the records it found.
C7_RegistrationWaitsForPass ==
    \A t \in Threads :
        pc[t] \in PassPcs \cup {"run_exit"} =>
            /\ entities = snap[t]
            /\ pushed[t] = CallbacksUpTo(snap[t], Processed(t))
            /\ (pc[t] = "run_exit" /\ pending[t] = NoException /\ idx[t] > 0) =>
                   pushed[t] = SelectSeq(snap[t], EntryHasCallback)

\* a pass over two records has completed while a registration that would
\* change the dict is waiting for the lock
C7_Witness ==
    \E t \in Threads : \E u \in Threads \ {t} :
        /\ pc[t] = "run_exit"
        /\ pending[t] = NoException
        /\ Len(pushed[t]) = 2
        /\ pc[u] = "register"
        /\ \E e \in arg[u] : DictGet(entities, RegisterKey(e)) # {e}

-----------------------------------------------------------------------------
(* C8 *)

\* C8: a callback executes only in a thread that is inside run() and holds
\* the device lock, on the record the for loop is at.
C8_CallbackOnlyInLockedRun ==
    \A t \in Threads :
        /\ pc[t] = "push_update" =>
               /\ device_lock = t
               /\ idx[t] \in 1..Len(entities)
               /\ HasCallback(entities[idx[t]].entity)
               /\ pushed[t] # <<>>
               /\ pushed[t][Len(pushed[t])] = entities[idx[t]]
        /\ pushed[t] # <<>> => pc[t] \in PassPcs \cup {"run_exit"}

C8_Witness ==
    \E t \in Threads :
        /\ pc[t] = "push_update"
        /\ \E u \in Threads \ {t} : pc[u] = "register"

-----------------------------------------------------------------------------
(* C9 *)

-----------------------------------------------------------------------------
(* C10 *)

\* C10: the lock is held exactly while a thread is inside a with block: when
\* every thread has left (by return or by exception) the lock is free, and a
\* holder is always a thread inside its block.
C10_LockReleasedOnEveryExit ==
    /\ \A t \in Threads : (pc[t] \in LockedPcs) <=> (device_lock = t)
    /\ (\A t \in Threads : pc[t] \notin LockedPcs) => LockAvailable

\* after a pass aborted by a bus exception, a later call has acquired the lock
C10_Witness ==
    /\ bus_failed
    /\ \E t \in Threads : pc[t] \in {"run_locked", "register_locked"}

-----------------------------------------------------------------------------
(* C11 *)

\* the bus reads and writes among the first n statements of __init__
BusTransactions(n) ==
    LET OnBus(st) == st.op \in {"read", "write"}
    IN  SelectSeq(SubSeq(InitProgram, 1, n), OnBus)

\* C11: whatever the identification register returns, __init__ goes on: no
\* exception comes from the identification (only from the bus, or from two
\* equal calibration codes), the transactions issued so far are those of the
\* program whatever device_id is, and at its return all configuration writes
\* and calibration reads have been issued, no exception has been raised and
\* the device is registered with the bus (HTS221, VEML6075).
C11_IdMismatchNonFatal ==
    /\ init_raised \in {NoException, "IOError", "ZeroDivisionError"}
    /\ init_raised = "ZeroDivisionError" => variant = "HTS221"
    /\ init_pc >= 1 =>
           /\ init_raised = NoException
           /\ bus_log = BusTransactions(init_pc - 1)
    /\ (init_pc >= 1 /\ InitAt("return")) =>
           /\ bus_log = BusTransactions(Len(InitProgram))
           /\ Decimating => registered
           /\ variant = "HTS221" => DOMAIN calib = {"Tref_deg", "Tref_adc", "Tscale",
                                                    "Href_rH", "Href_adc", "Hscale"}
           /\ variant = "VEML6075" => coef = VEML6075_coefficients
    /\ Constructed => Pollable

\* __init__ is about to return the device, having read a foreign identification
C11_Witness ==
    /\ InitAt("return")
    /\ device_id # <<>>
    /\ device_id # <<ExpectedId>>
    /\ Pollable

-----------------------------------------------------------------------------
(* C12 *)

\* C12: when a bus transaction of HTS221.__init__ or VEML6075.__init__ fails
\* (or __init__ raises otherwise), the device has not been registered with
\* the bus, no object has been returned, and run() is never called on it.
C12_FailedConstructionNeverRegisters ==
    (Decimating /\ init_raised # NoException) =>
        /\ ~registered
        /\ ~Constructed
        /\ ~Pollable
        /\ runCalls = 0
        /\ \A t \in Threads : pc[t] = "idle"

\* a calibration read has failed
C12_Witness ==
    /\ variant = "HTS221"
    /\ init_raised = "IOError"
    /\ bus_log # <<>>
    /\ bus_log[Len(bus_log)].reg = "R_H0_rH"

-----------------------------------------------------------------------------
(* C13 *)

\* C13: for every pair of bytes (H, L) the 16-bit code of HTS221 and of the
\* LPS22HB temperature is H*256+L if H < 128 and H*256+L-65536 otherwise, and
\* lies in -32768..32767; the 24-bit pressure code of (H, L, XL) is the
\* unsigned value, less 2^24 exactly when that value has bit 23 set.
C13_SignExtension ==
    /\ (CalcOf("HTS221_adc") \/ CalcOf("LPS22HB_temperature_code")) =>
           /\ calc.out = (IF calc.in[1] < 128
                          THEN calc.in[1] * 256 + calc.in[2]
                          ELSE calc.in[1] * 256 + calc.in[2] - 65536)
           /\ calc.out \in -32768..32767
    /\ CalcOf("LPS22HB_pressure_code") =>
           LET unsigned == calc.in[1] * 65536 + calc.in[2] * 256 + calc.in[3]
           IN  /\ unsigned >= 8388608 => calc.out = unsigned - 16777216
               /\ unsigned < 8388608 => calc.out = unsigned
               /\ calc.out \in -8388608..8388607

\* the most negative 16-bit code
C13_Witness ==
    /\ CalcOf("HTS221_adc")
    /\ calc.in = <<128, 0>>
    /\ calc.out = -32768

-----------------------------------------------------------------------------
(* C14 *)

\* 0 <= x <= 100
InPercentRange(x) == ~FLess(x, FFromInt(0)) /\ ~FLess(FFromInt(100), x)

\* C14: for every raw code and every calibration with distinct codes,
\* get_humidity returns h with 0 <= h <= 100, and returns the value of the
\* two-point expression (the argument of min) whenever that lies in [0, 100].
C14_HumidityClamped ==
    CalcOf("HTS221_get_humidity") =>
        /\ InPercentRange(calc.out)
        /\ With(HTS221_humidity_unclamped(HTS221_calibration_H(calc.in[1]), calc.in[2]),
                LAMBDA h : InPercentRange(h) => calc.out = h)

\* a code whose two-point value is above 100 has given 100
C14_Witness ==
    /\ CalcOf("HTS221_get_humidity")
    /\ calc.out = FFromInt(100)
    /\ FLess(FFromInt(100),
             HTS221_humidity_unclamped(HTS221_calibration_H(calc.in[1]), calc.in[2]))

-----------------------------------------------------------------------------
(* C15 *)

\* the band of the half-open interval an index of n tenths lies in
BandOfTenths(n) ==
    CASE 0 <= n /\ n < 20    -> "Low"
      [] 20 <= n /\ n < 50   -> "Moderate"
      [] 50 <= n /\ n < 70   -> "High"
      [] 70 <= n /\ n < 100  -> "Very high"
      [] 100 <= n /\ n < 120 -> "Extreme"
      [] 120 <= n            -> "Error"

\* the bands in the order of their intervals
BandRank(band) ==
    CASE band = "Low"       -> 1
      [] band = "Moderate"  -> 2
      [] band = "High"      -> 3
      [] band = "Very high" -> 4
      [] band = "Extreme"   -> 5
      [] band = "Error"     -> 6

\* C15: str_uv_intensity returns, for every index >= 0, the band of the
\* half-open interval [0,2), [2,5), [5,7), [7,10), [10,12), [12,inf) the
\* index lies in, and of two indexes the larger never gets the lower band.
C15_BandsHalfOpenAndMonotone ==
    CalcOf("VEML6075_str_uv_intensity") =>
        /\ calc.out[1] = BandOfTenths(calc.in[1])
        /\ calc.out[2] = BandOfTenths(calc.in[2])
        /\ calc.in[1] <= calc.in[2] => BandRank(calc.out[1]) <= BandRank(calc.out[2])

\* 11.9 and 12.0: the last bound separates Extreme from Error
C15_Witness ==
    /\ CalcOf("VEML6075_str_uv_intensity")
    /\ calc.in = <<119, 120>>
    /\ calc.out = <<"Extreme", "Error">>

-----------------------------------------------------------------------------
(* C16 *)

\* x * k without rounding, for an integer k
FExactMulInt(x, k) ==
    IF x.m = <<>> \/ k = 0
    THEN FZero
    ELSE [s |-> x.s * Sign(k), m |-> BigMulSmall(x.m, Abs(k)), e |-> x.e]

\* x * den - num, without rounding
FRatioDifference(x, num, den) == FExactAdd(FExactMulInt(x, den), FFromInt(-num))

\* x = num / den
FEqualsRatio(x, num, den) == FRatioDifference(x, num, den).m = <<>>

\* |x - num / den| <= 2^-k
FNearRatio(x, num, den, k) ==
    With(FRatioDifference(x, num, den),
         LAMBDA d : ~FLess([s |-> 1, m |-> BigFromInt(Abs(den)), e |-> -k],
                           [d EXCEPT !.s = 1]))

\* The calibration points of the application calc records: the codes, and
\* the values in 1/unit (T0_deg and T1_deg are in 1/8 degree, H0_rH and
\* H1_rH in 1/2 %); c is the raw code the accessor reconstructs.
TwoPoint ==
    IF calc.fn = "HTS221_get_temperature"
    THEN [code0 |-> HTS221_T0_adc(calc.in[1]), code1 |-> HTS221_T1_adc(calc.in[1]),
          value0 |-> HTS221_T0_deg(calc.in[1]), value1 |-> HTS221_T1_deg(calc.in[1]),
          unit |-> 8, c |-> HTS221_adc(calc.in[2][1], calc.in[2][2])]
    ELSE [code0 |-> HTS221_H0_adc(calc.in[1]), code1 |-> HTS221_H1_adc(calc.in[1]),
          value0 |-> calc.in[1].R_H0_rH, value1 |-> calc.in[1].R_H1_rH,
          unit |-> 2, c |-> HTS221_adc(calc.in[2][1], calc.in[2][2])]

\* value0 + (value1 - value0) / (code1 - code0) * (c - code0) as the ratio
\* of two integers
TwoPointNumerator(p) ==
    p.value0 * (p.code1 - p.code0) + (p.value1 - p.value0) * (p.c - p.code0)

TwoPointDenominator(p) == p.unit * (p.code1 - p.code0)

CalcOfTwoPoint == CalcOf("HTS221_get_temperature") \/ CalcOf("HTS221_humidity_unclamped")

\* C16 as stated: the result is value0 + (value1 - value0)/(code1 - code0) *
\* (c - code0), so exactly value0 at code0 and exactly value1 at code1.
C16_TwoPointExact ==
    CalcOfTwoPoint =>
        FEqualsRatio(calc.out, TwoPointNumerator(TwoPoint), TwoPointDenominator(TwoPoint))

\* C16, amended: the result is that value up to the rounding of the double
\* operations (within 2^-20 of it over the range of the registers); it is
\* exactly value0 at code0, and within 2^-40 of value1 at code1.
C16_TwoPointRounded ==
    CalcOfTwoPoint =>
        /\ FNearRatio(calc.out, TwoPointNumerator(TwoPoint), TwoPointDenominator(TwoPoint), 20)
        /\ TwoPoint.c = TwoPoint.code0 =>
               FEqualsRatio(calc.out, TwoPoint.value0, TwoPoint.unit)
        /\ TwoPoint.c = TwoPoint.code1 =>
               FNearRatio(calc.out, TwoPoint.value1, TwoPoint.unit, 40)

\* the temperature at code1 is not the double value1
C16_Witness ==
    /\ CalcOf("HTS221_get_temperature")
    /\ TwoPoint.c = TwoPoint.code1
    /\ ~FEqualsRatio(calc.out, TwoPoint.value1, TwoPoint.unit)

-----------------------------------------------------------------------------
(* C17 *)

\* b is the dispatch that follows the dispatch a
ConsecutiveDispatches(a, b) ==
    /\ a \in dispatchCalls
    /\ b \in dispatchCalls
    /\ a < b
    /\ \A k \in dispatchCalls : ~(a < k /\ k < b)

\* C17: with decimation period N >= 1, two consecutive dispatch passes are
\* exactly N run() calls apart: the N-1 calls between them start no pass.
C17_DispatchesPeriodApart ==
    (Decimating /\ slowdown >= 1) =>
        \A a \in 1..runCalls, b \in 1..runCalls :
            ConsecutiveDispatches(a, b) =>
                /\ b - a = slowdown
                /\ Cardinality({k \in 1..runCalls : a < k /\ k < b /\ k \notin dispatchCalls})
                       = slowdown - 1

\* period 2, no bus failure: passes on calls 3 and 5, none on call 4
C17_Witness ==
    /\ Decimating
    /\ slowdown = 2
    /\ ~bus_failed
    /\ \A t \in Threads : pending[t] = NoException
    /\ ConsecutiveDispatches(3, 5)

-----------------------------------------------------------------------------
(* C18 *)

\* thread t's run() has gone through its for loop, no bus read having
\* failed and no callback having raised
PassDone(t) ==
    /\ pc[t] = "run_exit"
    /\ runCalls \in dispatchCalls
    /\ pending[t] \notin {"IOError", "CallbackError"}

\* The values of the record's kind for the contents b read for it: the
\* accessor's result (for the UV index, under the coefficients the device
\* has or, set_uv_coefficients taking no lock, had while b was read)
ValuesOfKind(kind, b) ==
    CASE kind = "temperature"     -> {HTS221_temperatures[<<calib, b>>]}
      [] kind = "humidity"        -> {HTS221_humidities[<<calib, b>>]}
      [] kind = "uv"              -> {VEML6075_uv_indexes[<<c, b>>] : c \in VEML6075_Coefficients}
      [] kind = "get_pressure"    -> {LPS22HB_pressures[<<<<>>, b>>]}
      [] kind = "get_temperature" -> {LPS22HB_temperatures[<<<<>>, b>>]}

\* C18: in a pass every record that has a callback gets it invoked exactly
\* once (none is skipped), and a callback is entered with the value of its
\* record's kind, computed from the registers read for it in this pass.
C18_EveryRecordCalledOnce ==
    \A t \in Threads :
        /\ PassDone(t) => pushed[t] = CallbacksUpTo(entities, Len(entities))
        /\ pc[t] = "push_update" =>
               /\ Len(buf[t]) = Len(Registers(entities[idx[t]].entity.kind))
               /\ \E v \in ValuesOfKind(entities[idx[t]].entity.kind, buf[t]) :
                      value[t] = <<v>>

-----------------------------------------------------------------------------
(* C19 *)

\* thread t is leaving a run() call that was decimated (it holds the lock,
\* so the last call counted is its own)
DecimatedCall(t) ==
    /\ pc[t] = "run_exit"
    /\ Decimating
    /\ runCalls \notin dispatchCalls

\* what a decimated call leaves alone: the sensor map, the calibration and
\* coefficients, the bus and the callbacks
UntouchedByDecimatedCall(t) ==
    /\ UNCHANGED <<entities, coef, calib, slowdown, bus_log, lastReg, dispatchCalls>>
    /\ buf'[t] = <<>> /\ buf[t] = <<>>
    /\ pushed'[t] = <<>> /\ pushed[t] = <<>>
    /\ pending'[t] = NoException /\ pending[t] = NoException

\* C19: a run() call that finds the decremented counter positive decrements
\* it by one and leaves: it reads and writes nothing on the bus, invokes no
\* callback, and changes neither the sensor map nor the calibration.
C19_DecimatedCallOnlyDecrements ==
    [][\A t \in Threads :
          /\ (pc[t] = "run_locked" /\ Decimating /\ slowdown_counter - 1 > 0
                  /\ pc'[t] # "run_locked") =>
                 /\ DecimatedCall(t)'
                 /\ slowdown_counter' = slowdown_counter - 1
                 /\ UntouchedByDecimatedCall(t)
          /\ (DecimatedCall(t) /\ pc'[t] # pc[t]) =>
                 /\ pc'[t] = "idle"
                 /\ slowdown_counter' = slowdown_counter
                 /\ UntouchedByDecimatedCall(t)]_vars

\* a decimated call on a device that has a record to dispatch to
C19_Witness ==
    \E t \in Threads :
        /\ DecimatedCall(t)
        /\ slowdown_counter = 1
        /\ CallbacksUpTo(entities, Len(entities)) # <<>>

-----------------------------------------------------------------------------
(* C20 *)

\* C20: when a bus read fails in a pass, run() leaves the for loop at once:
\* the callback of the record being read and those of the records after it
\* are not invoked, and the call reads nothing more and returns.
C20_FailedReadAbortsPass ==
    [][\A t \in Threads :
          /\ (pc[t] = "run_read" /\ pending'[t] = "IOError") =>
                 /\ pc'[t] = "run_exit"
                 /\ pushed'[t] = pushed[t]
                 /\ \A i \in idx[t]..Len(entities) :
                        \A j \in 1..Len(pushed[t]) : pushed[t][j] # entities[i]
          /\ (pending[t] = "IOError" /\ pc'[t] # pc[t]) =>
                 /\ pc'[t] = "idle"
                 /\ buf'[t] = <<>>]_vars

\* the read of the first of two records has failed: neither callback is invoked
C20_Witness ==
    \E t \in Threads :
        /\ pending[t] = "IOError"
        /\ idx[t] = 1
        /\ pushed[t] = <<>>
        /\ Len(CallbacksUpTo(entities, Len(entities))) = 2

-----------------------------------------------------------------------------
(* C21 *)

\* x <= 0
NonPositive(x) == ~FLess(FFromInt(0), x)

\* C21: with the coefficients of __init__ and any contents of the four data
\* registers, get_uv_index() >= 0, and it is 0 exactly when both compensated
\* channels (uva_digital and uvb_digital, as get_uv_index computes them) are
\* non-positive.
C21_UvIndexNeverNegative ==
    CalcOf("VEML6075_get_uv_index") =>
        /\ ~FLess(calc.out, FFromInt(0))
        /\ (calc.out = FZero) <=>
               /\ NonPositive(VEML6075_uva_digital(VEML6075_coefficients, calc.in))
               /\ NonPositive(VEML6075_uvb_digital(VEML6075_coefficients, calc.in))

\* UVA and UVB readings of 563 under full-scale compensation channels: index 0
C21_Witness ==
    /\ CalcOf("VEML6075_get_uv_index")
    /\ calc.in = <<65535, 65535, 563, 563>>
    /\ calc.out = FZero

-----------------------------------------------------------------------------
(* C22 *)

IsIdRead(x) == x.op = "read" /\ x.reg \in IdRegisters

IsConfigurationWrite(x) == x.op = "write"

IsCalibrationRead(x) == x.op = "read" /\ x.reg \notin IdRegisters

\* the registers of the transactions of bus_log that satisfy Is
LoggedRegisters(Is(_)) == {bus_log[i].reg : i \in {j \in 1..Len(bus_log) : Is(bus_log[j])}}

\* the scaling factors of HTS221, the coefficients of VEML6075 are assigned
CalibrationSet ==
    /\ variant = "HTS221" =>
           DOMAIN calib = {"Tref_deg", "Tref_adc", "Tscale", "Href_rH", "Href_adc", "Hscale"}
    /\ variant = "VEML6075" =>
           DOMAIN coef = {"coef_integration"} \cup CoefFieldSet

\* C22: in HTS221.__init__ and VEML6075.__init__ the identification read is
\* the first bus transaction and precedes every configuration write, every
\* calibration read follows the configuration writes, and the device is
\* registered with the bus only after all of them; so a run() call finds
\* the calibration set.
C22_ConstructionOrder ==
    Decimating =>
        /\ bus_log # <<>> => IsIdRead(bus_log[1])
        /\ \A i \in 1..Len(bus_log), j \in 1..Len(bus_log) :
               /\ (IsIdRead(bus_log[i]) /\ IsConfigurationWrite(bus_log[j])) => i < j
               /\ (IsConfigurationWrite(bus_log[i]) /\ IsCalibrationRead(bus_log[j])) => i < j
        /\ registered =>
               /\ init_raised = NoException
               /\ LoggedRegisters(IsIdRead) # {}
               /\ LoggedRegisters(IsConfigurationWrite) =
                      (IF variant = "HTS221" THEN {"R_AV_CONF", "R_CTRL_REG1"} ELSE {"R_UV_CONF"})
               /\ LoggedRegisters(IsCalibrationRead) =
                      (IF variant = "HTS221"
                       THEN UNION {DOMAIN r : r \in HTS221_CalibrationRegisters}
                       ELSE {})
               /\ CalibrationSet
        /\ (runCalls > 0 \/ \E t \in Threads : pc[t] \in {"run", "run_locked"} \cup PassPcs) =>
               registered /\ CalibrationSet

\* the bus manager thread polls a HTS221 that __init__ has registered and
\* not yet returned
C22_Witness ==
    /\ variant = "HTS221"
    /\ registered
    /\ ~Constructed
    /\ \E t \in Threads : pc[t] = "run_locked"

-----------------------------------------------------------------------------
(* C23 *)

\* no run() call is between taking the lock and returning
NoRunUnderWay == \A t \in Threads : pc[t] \notin {"run_locked", "run_exit"} \cup PassPcs

\* C23: with decimation period N >= 1 the counter is in 1..N after every
\* completed run() call (and whenever no call is at the decrement); with a
\* period N <= 1, 0 and negative periods included, every run() call starts
\* a dispatch pass.
C23_CounterBounds ==
    Decimating =>
        /\ (slowdown >= 1 /\ runCalls > 0) => slowdown_counter \in 1..slowdown
        /\ slowdown <= 1 => dispatchCalls = 1..runCalls

\* period 2, two calls completed: the counter is at 1
C23_Witness ==
    /\ Decimating
    /\ slowdown = 2
    /\ runCalls = 2
    /\ NoRunUnderWay
    /\ slowdown_counter = 1

\* every call of a device with period 0 has started a pass
C23_WitnessZeroPeriod ==
    /\ Decimating
    /\ slowdown = 0
    /\ runCalls = 3
    /\ NoRunUnderWay

-----------------------------------------------------------------------------
(* C24 *)

\* C24: under fair scheduling, with bus transactions and callbacks that
\* return, every run() call and every registration call eventually returns,
\* whatever the other thread calls meanwhile; and a thread inside a pass
\* (in an accessor or a callback) holds the lock and does not wait for it.
\* A call returns when its thread is idle again: each thread is idle again
\* and again.
C24_EveryCallReturns ==
    /\ [](\A t \in Threads : pc[t] \in PassPcs => device_lock = t)
    /\ \A t \in Threads : []<>(pc[t] = "idle")

\* one thread waits for the lock while the other is in a pass
C24_Witness ==
    \E t \in Threads, u \in Threads :
        /\ pc[t] = "register"
        /\ pc[u] = "run_read"
        /\ device_lock = u

-----------------------------------------------------------------------------
(* C25 *)

\* C25: with decimation period N >= 1, a pass in which a bus read fails has
\* used its slot: its call has reset the counter to N before the first
\* read, and, as after any pass, the N-1 calls that follow it start no pass
\* and the N-th call after it reads again.
C25_FailedPassConsumesSlot ==
    (Decimating /\ slowdown >= 1) =>
        /\ \A t \in Threads :
               pending[t] = "IOError" =>
                   /\ runCalls \in dispatchCalls
                   /\ slowdown_counter = slowdown
        /\ \A k \in dispatchCalls :
               /\ \A j \in 1..runCalls : (k < j /\ j < k + slowdown) => j \notin dispatchCalls
               /\ k + slowdown <= runCalls => k + slowdown \in dispatchCalls

\* period 2: the pass of call 1 has failed, call 2 has started no pass, and
\* call 3 reads the bus
C25_Witness ==
    /\ Decimating
    /\ slowdown = 2
    /\ bus_failed
    /\ dispatchCalls = {1, 3}
    /\ runCalls = 3
    /\ \E t \in Threads : pc[t] = "run_read" /\ pending[t] = NoException

-----------------------------------------------------------------------------
(* C26 *)

\* C26: every LPS22HB.run() call starts a pass, whatever the number of the
\* call; a pass that no exception ends has read for and called every
\* registered record, in the order of the registry; and with an empty
\* registry a call reads nothing and calls nothing.
C26_NoDecimation ==
    variant = "LPS22HB" =>
        /\ dispatchCalls = 1..runCalls
        /\ slowdown_counter = 0
        /\ \A t \in Threads :
               /\ (pc[t] = "run_exit" /\ pending[t] = NoException) => pushed[t] = entities
               /\ pc[t] \in {"run_read", "push_update"} => entities # <<>>
               /\ (pc[t] \in LockedPcs /\ entities = <<>>) =>
                      buf[t] = <<>> /\ value[t] = <<>> /\ pushed[t] = <<>>

\* the second call in a row has gone through both records
C26_Witness ==
    /\ variant = "LPS22HB"
    /\ runCalls = 2
    /\ \E t \in Threads :
           /\ pc[t] = "run_exit"
           /\ pending[t] = NoException
           /\ Len(pushed[t]) = 2

\* a call on a device without records is about to return
C26_WitnessEmptyRegistry ==
    /\ variant = "LPS22HB"
    /\ entities = <<>>
    /\ \E t \in Threads : pc[t] = "run_exit"

====
